---- MODULE Spec2Model ----
(***************************************************************************)
(* The HTTP facade of ideav-local-associative-js (src/server.mjs, kept as  *)
(* src/unnamed/part_000) over one link store.                              *)
(*                                                                         *)
(* Every route handler is an async function: its synchronous prefix runs   *)
(* when the request arrives (Arrive), each awaited store call is executed  *)
(* by the store at some later moment (Call), and the continuation that     *)
(* formats the response runs after that (Reply).  Requests of different    *)
(* slots interleave at these points.                                       *)
(*                                                                         *)
(* LinkDBService and ILinks come from @link-foundation/links-client, a    *)
(* dependency whose code is not in this repository.  The store operations  *)
(* are therefore modelled from the specification, section 4 (atomic calls, *)
(* monotonic ids), and the restriction layout from the README's examples.  *)
(*                                                                         *)
(* The library modules (export-import, filters) and the server's           *)
(* configuration are pure functions of their arguments.  They work on     *)
(* strings, modelled as sequences of characters, and are evaluated by      *)
(* specifications of their own whose initial states are the arguments.     *)
(***************************************************************************)
EXTENDS Integers, Sequences, FiniteSets

\* ------------------------------------------------------------------ bounds
\* Requests issued in one behaviour.
MaxRequests == 3

\* Requests in flight at once.
Slots == {1, 2}

\* Link ids a request body, restriction or substitution may carry.
Vals == {0, 1}

\* ------------------------------------------------------------ JS values
\* parseInt's NaN.
NaN == -1

\* undefined
Undefined == -2

\* ILinks' "any" constant: README, POST /ilinks/each with [100, 0] answers
\* "All links with source=100".
Any == 0

\* Path and body tokens as they arrive on the wire.
PathToks == {"1", "2", "x"}

\* The source and target tokens of a POST or PUT body.
Bodies ==
  {<<"0", "0">>, <<"0", "1">>, <<"1", "0">>, <<"1", "1">>, <<"x", "0">>,
   <<"0", "x">>}

\* parseInt(tok, 10) on the tokens above, and on "1x" and "": parseInt reads
\* the leading digits of its argument and is NaN only when there are none.
ParseInt(tok) ==
  CASE tok = "0" -> 0
    [] tok = "1" -> 1
    [] tok = "2" -> 2
    [] tok = "1x" -> 1
    [] OTHER -> NaN

IsNaN(n) == n = NaN

Link(i, s, t) == [id |-> i, source |-> s, target |-> t]

\* ------------------------------------------------------------ variables
VARIABLES
  links,        \* the store: id -> [source, target] for the ids present
  nextId,       \* the store's id allocator
  inflight,     \* slot -> the request it serves
  nreq,         \* requests issued so far
  lastResp,     \* the response this step sends (with the request it
                \* answers), NoResp when the step sends none
  issued,       \* ids answered by 201 responses of the create routes
  nIssued,      \* how many 201 create responses were sent
  ackedDeleted, \* ids DELETE /links/:id answered '(deleted: ok)' for
  lastPut,      \* <<id, source, target>> of the last PUT answered 200 and
                \* not overwritten since, or <<>>
  written,      \* <<id, source, target>> of every create and update request
                \* the store has executed
  created,      \* the objects the 201 responses of POST /objects reported
  updated,      \* the object the last PUT /objects/:id or reorder answered 200
                \* with, if it was not deleted since, or <<>>
  pure          \* the call of a pure library function under evaluation:
                \* its name, arguments and results (NoCall for the server)

vars ==
  <<links, nextId, inflight, nreq, lastResp, issued, nIssued, ackedDeleted,
    lastPut, written, created, updated, pure>>

\* The variables of the HTTP server.
server ==
  <<links, nextId, inflight, nreq, lastResp, issued, nIssued, ackedDeleted,
    lastPut, written, created, updated>>

\* ------------------------------------------------------------- requests
NullRestriction == [kind |-> "null", items |-> <<>>]
AbsentSubstitution == [kind |-> "absent", items |-> <<>>]

Idle ==
  [op |-> "idle", pc |-> "idle", id |-> 0, source |-> 0, target |-> 0,
   restriction |-> NullRestriction, substitution |-> AbsentSubstitution,
   result |-> <<>>, n |-> 0, found |-> FALSE, err |-> FALSE,
   floor |-> 0, acked |-> FALSE, expect |-> <<>>, stale |-> FALSE,
   made |-> <<>>, error |-> <<>>]

NoResp == [status |-> 0, body |-> <<>>, n |-> 0, req |-> Idle]

\* No library function is under evaluation.
NoCall == [fn |-> "none"]

SetMax(S) == CHOOSE m \in S : \A x \in S : x <= m
SetMin(S) == CHOOSE m \in S : \A x \in S : m <= x

\* ------------------------------------------------------ the link store
\* Store.create: the new id is the allocator's value; nothing else changes.
StoreCreate(ls, nid, s, t) ==
  [j \in DOMAIN ls \cup {nid} |->
     IF j = nid THEN [source |-> s, target |-> t] ELSE ls[j]]

\* Store.update: overwrites source and target of id in place.
StoreUpdate(ls, id, s, t) ==
  [j \in DOMAIN ls |-> IF j = id THEN [source |-> s, target |-> t] ELSE ls[j]]

\* Store.update fails with NotFound for an id that was never created or has
\* been deleted.
UpdateLinkFails(ls, id) == id \notin DOMAIN ls

\* Store.delete of a set of ids.
StoreDelete(ls, ids) == [j \in DOMAIN ls \ ids |-> ls[j]]

\* linkdb.readLink(id): the link, or nothing (null).
ReadLink(ls, id) ==
  IF id \in DOMAIN ls
    THEN <<Link(id, ls[id].source, ls[id].target)>>
    ELSE <<>>

RECURSIVE LinksFrom(_, _)
LinksFrom(ls, ids) ==
  IF ids = {}
    THEN <<>>
    ELSE LET m == SetMin(ids)
         IN <<Link(m, ls[m].source, ls[m].target)>> \o LinksFrom(ls, ids \ {m})

\* linkdb.readAllLinks(): every link, in creation (id) order.
ReadAllLinks(ls) == LinksFrom(ls, DOMAIN ls)

\* --------------------------------------------------------------- ILinks
\* One slot of a restriction against one field of a link.
SlotMatches(v, x) == v = Any \/ v = x

\* A restriction is null, or an array: [id], [source, target] or
\* [id, source, target].
MatchesRestriction(link, r) ==
  LET it == r.items
  IN IF r.kind = "null" \/ Len(it) = 0 THEN TRUE
     ELSE IF Len(it) = 1 THEN SlotMatches(it[1], link.id)
     ELSE IF Len(it) = 2
       THEN SlotMatches(it[1], link.source) /\ SlotMatches(it[2], link.target)
     ELSE /\ SlotMatches(it[1], link.id)
          /\ SlotMatches(it[2], link.source)
          /\ SlotMatches(it[3], link.target)

\* ilinks.count(restriction): the cardinality of the match set.
Count(ls, r) ==
  Cardinality({j \in DOMAIN ls :
                 MatchesRestriction(Link(j, ls[j].source, ls[j].target), r)})

\* A callback that ends the scan at its first link.
EachCallbackBreaks(acc, link) ==
  [acc |-> Append(acc, link), signal |-> "Break"]

\* The callback POST /ilinks/each hands to ilinks.each: push, then Continue.
EachCallback(acc, link) ==
  [acc |-> Append(acc, link), signal |-> "Continue"]

RECURSIVE EachFrom(_, _, _)
EachFrom(all, r, acc) ==
  IF all = <<>> THEN acc
  ELSE IF ~MatchesRestriction(Head(all), r) THEN EachFrom(Tail(all), r, acc)
  ELSE LET v == EachCallback(acc, Head(all))
       IN IF v.signal = "Break" THEN v.acc ELSE EachFrom(Tail(all), r, v.acc)

\* ilinks.each(restriction, visit) with the handler's callback: the links
\* the callback collected.
Each(ls, r) == EachFrom(ReadAllLinks(ls), r, <<>>)

\* ---------------------------------------------------------- formatting
\* formatLinksAsLN: one "(id: source target)" per link, in order.
FormatLinksAsLNSwapped(ls) ==
  [i \in 1..Len(ls) |-> <<ls[i].source, ls[i].id, ls[i].target>>]

FormatLinksAsLN(ls) ==
  [i \in 1..Len(ls) |-> <<ls[i].id, ls[i].source, ls[i].target>>]

\* -------------------------------------------------------- request inputs
ArraysOver(S) ==
  {<<>>} \cup {<<a>> : a \in S} \cup {<<a, b>> : a \in S, b \in S}
    \cup {<<a, b, c>> : a \in S, b \in S, c \in S}

\* req.body.restriction: absent, null, or an array of ids.
RestrictionInputs ==
  {[kind |-> "absent", items |-> <<>>], [kind |-> "null", items |-> <<>>]}
    \cup {[kind |-> "array", items |-> it] : it \in ArraysOver(Vals)}

\* req.body.substitution: absent, a string, or an array of ids.
SubstitutionInputs ==
  {[kind |-> "absent", items |-> <<>>], [kind |-> "string", items |-> <<>>]}
    \cup {[kind |-> "array", items |-> it] :
            it \in {a \in ArraysOver(Vals) : Len(a) = 3 => a[3] = 1}}

\* req.body?.restriction || null
RestrictionOrNull(r) == IF r.kind = "array" THEN r ELSE NullRestriction

\* !substitution || !Array.isArray(substitution) || substitution.length < 2
SubstitutionRejectedShort(sub) == sub.kind # "array" \/ Len(sub.items) < 1

SubstitutionRejected(sub) == sub.kind # "array" \/ Len(sub.items) < 2

\* ------------------------------------------------------- bookkeeping
FreeSlot(k) ==
  /\ nreq < MaxRequests
  /\ inflight[k] = Idle
  /\ \A j \in Slots : inflight[j] = Idle => k <= j

Start(op) == [Idle EXCEPT !.op = op, !.pc = "call"]

Waiting(k, op, pc) == inflight[k].op = op /\ inflight[k].pc = pc

Resp(status, body, n, req) ==
  [status |-> status, body |-> body, n |-> n, req |-> [req EXCEPT !.pc = "done"]]

\* A write of link x by slot k, seen from the other requests in flight: a
\* PUT of x awaiting its reply no longer holds the last write, and a GET
\* of x not yet served no longer follows the acknowledged PUT directly.
NoteWrite(fl, k, x) ==
  [j \in Slots |->
     IF j # k /\ fl[j].op = "putLink" /\ fl[j].id = x /\ fl[j].pc = "reply"
       THEN [fl[j] EXCEPT !.stale = TRUE]
     ELSE IF j # k /\ fl[j].op = "getLink" /\ fl[j].id = x /\ fl[j].pc = "call"
       THEN [fl[j] EXCEPT !.expect = <<>>]
     ELSE fl[j]]

ForgetPut(lp, x) == IF lp # <<>> /\ lp[1] = x THEN <<>> ELSE lp

ExpectFor(lp, x) == IF lp # <<>> /\ lp[1] = x THEN <<lp[2], lp[3]>> ELSE <<>>

Floor(ids) == IF ids = {} THEN 0 ELSE SetMax(ids)

Init ==
  /\ links = <<>>
  /\ nextId = 1
  /\ inflight = [k \in Slots |-> Idle]
  /\ nreq = 0
  /\ lastResp = NoResp
  /\ issued = {}
  /\ nIssued = 0
  /\ ackedDeleted = {}
  /\ lastPut = <<>>
  /\ written = {}
  /\ created = {}
  /\ updated = <<>>
  /\ pure = NoCall

\* ----------------------------------------------------------- GET /links
GetLinksArrive(k) ==
  /\ FreeSlot(k)
  /\ inflight' = [inflight EXCEPT ![k] = Start("getLinks")]
  /\ nreq' = nreq + 1
  /\ lastResp' = NoResp
  /\ UNCHANGED <<links, nextId, issued, nIssued, ackedDeleted, lastPut>>
  /\ UNCHANGED <<written, created, updated, pure>>

GetLinksCall(k) ==
  /\ Waiting(k, "getLinks", "call")
  /\ inflight' = [inflight EXCEPT ![k].result = ReadAllLinks(links),
                                  ![k].pc = "reply"]
  /\ lastResp' = NoResp
  /\ UNCHANGED <<links, nextId, nreq, issued, nIssued, ackedDeleted,
                 lastPut>>
  /\ UNCHANGED <<written, created, updated, pure>>

GetLinksReply(k) ==
  /\ Waiting(k, "getLinks", "reply")
  /\ lastResp' = Resp(200, FormatLinksAsLN(inflight[k].result), 0, inflight[k])
  /\ inflight' = [inflight EXCEPT ![k] = Idle]
  /\ UNCHANGED <<links, nextId, nreq, issued, nIssued, ackedDeleted, lastPut>>
  /\ UNCHANGED <<written, created, updated, pure>>

\* ------------------------------------------------------- GET /links/:id
GetLinkArrive(k, tok) ==
  /\ FreeSlot(k)
  /\ nreq' = nreq + 1
  /\ LET id == ParseInt(tok)
         r == [Start("getLink") EXCEPT !.id = id,
                                        !.acked = id \in ackedDeleted,
                                        !.expect = ExpectFor(lastPut, id)]
     IN IF IsNaN(id)
          THEN /\ lastResp' = Resp(400, <<>>, 0, r)
               /\ UNCHANGED inflight
          ELSE /\ inflight' = [inflight EXCEPT ![k] = r]
               /\ lastResp' = NoResp
  /\ UNCHANGED <<links, nextId, issued, nIssued, ackedDeleted, lastPut>>
  /\ UNCHANGED <<written, created, updated, pure>>

GetLinkCall(k) ==
  /\ Waiting(k, "getLink", "call")
  /\ inflight' = [inflight EXCEPT ![k].result = ReadLink(links, inflight[k].id),
                                  ![k].pc = "reply"]
  /\ lastResp' = NoResp
  /\ UNCHANGED <<links, nextId, nreq, issued, nIssued, ackedDeleted,
                 lastPut>>
  /\ UNCHANGED <<written, created, updated, pure>>

\* if (link) ... else 404
GetLinkStatus(link) == IF link # <<>> THEN 200 ELSE 404

GetLinkReply(k) ==
  /\ Waiting(k, "getLink", "reply")
  /\ LET r == inflight[k]
     IN lastResp' = Resp(GetLinkStatus(r.result), FormatLinksAsLN(r.result), 0, r)
  /\ inflight' = [inflight EXCEPT ![k] = Idle]
  /\ UNCHANGED <<links, nextId, nreq, issued, nIssued, ackedDeleted, lastPut>>
  /\ UNCHANGED <<written, created, updated, pure>>

\* ---------------------------------------------------------- POST /links
PostLinksArrive(k, st, tt) ==
  /\ FreeSlot(k)
  /\ nreq' = nreq + 1
  /\ LET source == ParseInt(st)
         target == ParseInt(tt)
         r == [Start("postLinks") EXCEPT !.source = source, !.target = target,
                                          !.floor = Floor(issued)]
     IN IF IsNaN(source) \/ IsNaN(target)
          THEN /\ lastResp' = Resp(400, <<>>, 0, r)
               /\ UNCHANGED inflight
          ELSE /\ inflight' = [inflight EXCEPT ![k] = r]
               /\ lastResp' = NoResp
  /\ UNCHANGED <<links, nextId, issued, nIssued, ackedDeleted, lastPut>>
  /\ UNCHANGED <<written, created, updated, pure>>

\* linkdb.createLink(source, target)
PostLinksCall(k) ==
  /\ Waiting(k, "postLinks", "call")
  /\ LET r == inflight[k]
         made == <<Link(nextId, r.source, r.target)>>
     IN /\ links' = StoreCreate(links, nextId, r.source, r.target)
        /\ inflight' = [NoteWrite(inflight, k, nextId) EXCEPT
                          ![k].result = made, ![k].made = made, ![k].pc = "reply"]
        /\ lastPut' = ForgetPut(lastPut, nextId)
        /\ written' = written \cup {<<nextId, r.source, r.target>>}
  /\ nextId' = nextId + 1
  /\ lastResp' = NoResp
  /\ UNCHANGED <<nreq, issued, nIssued, ackedDeleted>>
  /\ UNCHANGED <<created, updated, pure>>

PostLinksReply(k) ==
  /\ Waiting(k, "postLinks", "reply")
  /\ LET text == FormatLinksAsLN(inflight[k].result)
     IN /\ lastResp' = Resp(201, text, 0, inflight[k])
        /\ issued' = issued \cup {text[1][1]}
  /\ nIssued' = nIssued + 1
  /\ inflight' = [inflight EXCEPT ![k] = Idle]
  /\ UNCHANGED <<links, nextId, nreq, ackedDeleted, lastPut>>
  /\ UNCHANGED <<written, created, updated, pure>>

\* ------------------------------------------------------- PUT /links/:id
PutLinkArrive(k, tok, st, tt) ==
  /\ FreeSlot(k)
  /\ nreq' = nreq + 1
  /\ LET id == ParseInt(tok)
         source == ParseInt(st)
         target == ParseInt(tt)
         r == [Start("putLink") EXCEPT !.id = id, !.source = source,
                                        !.target = target]
     IN IF IsNaN(id) \/ IsNaN(source) \/ IsNaN(target)
          THEN /\ lastResp' = Resp(400, <<>>, 0, r)
               /\ UNCHANGED inflight
          ELSE /\ inflight' = [inflight EXCEPT ![k] = r]
               /\ lastResp' = NoResp
  /\ UNCHANGED <<links, nextId, issued, nIssued, ackedDeleted, lastPut>>
  /\ UNCHANGED <<written, created, updated, pure>>

\* The arguments the handler hands to linkdb.updateLink.
PutLinkArgsSourceTwice(r) == <<r.id, r.source, r.source>>

PutLinkArgsSwapped(r) == <<r.id, r.target, r.source>>

PutLinkArgs(r) == <<r.id, r.source, r.target>>

\* linkdb.updateLink(id, source, target): the updated link, or NotFound for
\* an id that is not in the store.
PutLinkCall(k) ==
  /\ Waiting(k, "putLink", "call")
  /\ LET r == inflight[k]
         a == PutLinkArgs(r)
     IN IF ~UpdateLinkFails(links, a[1])
          THEN /\ links' = StoreUpdate(links, a[1], a[2], a[3])
               /\ inflight' = [NoteWrite(inflight, k, r.id) EXCEPT
                                 ![k].result = <<Link(a[1], a[2], a[3])>>,
                                 ![k].found = TRUE, ![k].pc = "reply"]
               /\ lastPut' = ForgetPut(lastPut, r.id)
               /\ written' = written \cup {<<r.id, r.source, r.target>>}
          ELSE /\ inflight' = [inflight EXCEPT ![k].err = TRUE, ![k].pc = "reply"]
               /\ UNCHANGED <<links, lastPut, written>>
  /\ lastResp' = NoResp
  /\ UNCHANGED <<nextId, nreq, issued, nIssued, ackedDeleted>>
  /\ UNCHANGED <<created, updated, pure>>

\* The handler has two outcomes: the formatted link (200), or the catch
\* block (500) for whatever updateLink or formatLinksAsLN threw.
PutLinkReply(k) ==
  /\ Waiting(k, "putLink", "reply")
  /\ LET r == inflight[k]
     IN IF r.err
          THEN /\ lastResp' = Resp(500, <<>>, 0, r)
               /\ UNCHANGED lastPut
          ELSE /\ lastResp' = Resp(200, FormatLinksAsLN(r.result), 0, r)
               /\ lastPut' = IF r.stale THEN lastPut
                             ELSE <<r.id, r.source, r.target>>
  /\ inflight' = [inflight EXCEPT ![k] = Idle]
  /\ UNCHANGED <<links, nextId, nreq, issued, nIssued, ackedDeleted>>
  /\ UNCHANGED <<written, created, updated, pure>>

\* ---------------------------------------------------- DELETE /links/:id
DeleteLinkArrive(k, tok) ==
  /\ FreeSlot(k)
  /\ nreq' = nreq + 1
  /\ LET id == ParseInt(tok)
         r == [Start("deleteLink") EXCEPT !.id = id]
     IN IF IsNaN(id)
          THEN /\ lastResp' = Resp(400, <<>>, 0, r)
               /\ UNCHANGED inflight
          ELSE /\ inflight' = [inflight EXCEPT ![k] = r]
               /\ lastResp' = NoResp
  /\ UNCHANGED <<links, nextId, issued, nIssued, ackedDeleted, lastPut>>
  /\ UNCHANGED <<written, created, updated, pure>>

\* The ids one DELETE /links/:id removes: the handler makes one
\* linkdb.deleteLink(id) call.
DeleteTargetsCascade(ls, id) ==
  {id} \cup {j \in DOMAIN ls : ls[j].source = id \/ ls[j].target = id}

DeleteTargets(ls, id) == {id}

\* linkdb.deleteLink(id) resolves whether or not the id is in the store
\* (tests/server.test.mjs: DELETE /links/999999 "may succeed (200)").
DeleteLinkCall(k) ==
  /\ Waiting(k, "deleteLink", "call")
  /\ LET r == inflight[k]
         gone == DeleteTargets(links, r.id) \cap DOMAIN links
     IN /\ links' = StoreDelete(links, gone)
        /\ inflight' = [NoteWrite(inflight, k, r.id) EXCEPT
                          ![k].found = r.id \in DOMAIN links, ![k].pc = "reply"]
        /\ lastPut' = ForgetPut(lastPut, r.id)
  /\ lastResp' = NoResp
  /\ UNCHANGED <<nextId, nreq, issued, nIssued, ackedDeleted>>
  /\ UNCHANGED <<written, created, updated, pure>>

\* The awaited value is dropped: every resolved deleteLink is answered
\* '(deleted: ok)'.
DeleteLinkReply(k) ==
  /\ Waiting(k, "deleteLink", "reply")
  /\ lastResp' = Resp(200, <<>>, 0, inflight[k])
  /\ ackedDeleted' = ackedDeleted \cup {inflight[k].id}
  /\ inflight' = [inflight EXCEPT ![k] = Idle]
  /\ UNCHANGED <<links, nextId, nreq, issued, nIssued, lastPut>>
  /\ UNCHANGED <<written, created, updated, pure>>

\* ---------------------------------------------------- POST /ilinks/count
IlinksCountArrive(k, restriction) ==
  /\ FreeSlot(k)
  /\ nreq' = nreq + 1
  /\ inflight' = [inflight EXCEPT ![k] =
       [Start("ilinksCount") EXCEPT !.restriction = RestrictionOrNull(restriction)]]
  /\ lastResp' = NoResp
  /\ UNCHANGED <<links, nextId, issued, nIssued, ackedDeleted, lastPut>>
  /\ UNCHANGED <<written, created, updated, pure>>

IlinksCountCall(k) ==
  /\ Waiting(k, "ilinksCount", "call")
  /\ inflight' = [inflight EXCEPT ![k].n = Count(links, inflight[k].restriction),
                                  ![k].pc = "reply"]
  /\ lastResp' = NoResp
  /\ UNCHANGED <<links, nextId, nreq, issued, nIssued, ackedDeleted,
                 lastPut>>
  /\ UNCHANGED <<written, created, updated, pure>>

IlinksCountReply(k) ==
  /\ Waiting(k, "ilinksCount", "reply")
  /\ lastResp' = Resp(200, <<>>, inflight[k].n, inflight[k])
  /\ inflight' = [inflight EXCEPT ![k] = Idle]
  /\ UNCHANGED <<links, nextId, nreq, issued, nIssued, ackedDeleted, lastPut>>
  /\ UNCHANGED <<written, created, updated, pure>>

\* ----------------------------------------------------- POST /ilinks/each
IlinksEachArrive(k, restriction) ==
  /\ FreeSlot(k)
  /\ nreq' = nreq + 1
  /\ inflight' = [inflight EXCEPT ![k] =
       [Start("ilinksEach") EXCEPT !.restriction = RestrictionOrNull(restriction)]]
  /\ lastResp' = NoResp
  /\ UNCHANGED <<links, nextId, issued, nIssued, ackedDeleted, lastPut>>
  /\ UNCHANGED <<written, created, updated, pure>>

IlinksEachCall(k) ==
  /\ Waiting(k, "ilinksEach", "call")
  /\ inflight' = [inflight EXCEPT ![k].result = Each(links, inflight[k].restriction),
                                  ![k].pc = "reply"]
  /\ lastResp' = NoResp
  /\ UNCHANGED <<links, nextId, nreq, issued, nIssued, ackedDeleted,
                 lastPut>>
  /\ UNCHANGED <<written, created, updated, pure>>

IlinksEachReply(k) ==
  /\ Waiting(k, "ilinksEach", "reply")
  /\ lastResp' = Resp(200, FormatLinksAsLN(inflight[k].result), 0, inflight[k])
  /\ inflight' = [inflight EXCEPT ![k] = Idle]
  /\ UNCHANGED <<links, nextId, nreq, issued, nIssued, ackedDeleted, lastPut>>
  /\ UNCHANGED <<written, created, updated, pure>>

\* --------------------------------------------------- POST /ilinks/create
IlinksCreateArrive(k, substitution) ==
  /\ FreeSlot(k)
  /\ nreq' = nreq + 1
  /\ LET r == [Start("ilinksCreate") EXCEPT !.substitution = substitution,
                                             !.floor = Floor(issued)]
     IN IF SubstitutionRejected(substitution)
          THEN /\ lastResp' = Resp(400, <<>>, 0, r)
               /\ UNCHANGED inflight
          ELSE /\ inflight' = [inflight EXCEPT ![k] = r]
               /\ lastResp' = NoResp
  /\ UNCHANGED <<links, nextId, issued, nIssued, ackedDeleted, lastPut>>
  /\ UNCHANGED <<written, created, updated, pure>>

\* ilinks.create(substitution): Store.create(source, target) of the first two
\* elements, InvalidArgument for a shorter tuple; answers the new id.
IlinksCreateCall(k) ==
  /\ Waiting(k, "ilinksCreate", "call")
  /\ LET it == inflight[k].substitution.items
     IN IF Len(it) < 2
          THEN /\ inflight' = [inflight EXCEPT ![k].err = TRUE, ![k].pc = "reply"]
               /\ UNCHANGED <<links, nextId, lastPut, written>>
          ELSE /\ links' = StoreCreate(links, nextId, it[1], it[2])
               /\ nextId' = nextId + 1
               /\ inflight' = [NoteWrite(inflight, k, nextId) EXCEPT
                                 ![k].id = nextId,
                                 ![k].made = <<Link(nextId, it[1], it[2])>>,
                                 ![k].pc = "call2"]
               /\ lastPut' = ForgetPut(lastPut, nextId)
               /\ written' = written \cup {<<nextId, it[1], it[2]>>}
  /\ lastResp' = NoResp
  /\ UNCHANGED <<nreq, issued, nIssued, ackedDeleted>>
  /\ UNCHANGED <<created, updated, pure>>

\* The id the handler reads back: the one ilinks.create answered.
IlinksCreateReadIdFromSource(r) == r.substitution.items[1]

IlinksCreateReadId(r) == r.id

\* linkdb.readLink(id), the handler's second await.
IlinksCreateRead(k) ==
  /\ Waiting(k, "ilinksCreate", "call2")
  /\ inflight' = [inflight EXCEPT
                    ![k].result = ReadLink(links, IlinksCreateReadId(inflight[k])),
                                  ![k].pc = "reply"]
  /\ lastResp' = NoResp
  /\ UNCHANGED <<links, nextId, nreq, issued, nIssued, ackedDeleted,
                 lastPut>>
  /\ UNCHANGED <<written, created, updated, pure>>

\* formatLinksAsLN(null) throws (null has no .id): the catch block answers 500.
IlinksCreateReply(k) ==
  /\ Waiting(k, "ilinksCreate", "reply")
  /\ LET r == inflight[k]
         text == FormatLinksAsLN(r.result)
     IN IF r.err \/ r.result = <<>>
          THEN /\ lastResp' = Resp(500, <<>>, 0, r)
               /\ UNCHANGED <<issued, nIssued>>
          ELSE /\ lastResp' = Resp(201, text, 0, r)
               /\ issued' = issued \cup {text[1][1]}
               /\ nIssued' = nIssued + 1
  /\ inflight' = [inflight EXCEPT ![k] = Idle]
  /\ UNCHANGED <<links, nextId, nreq, ackedDeleted, lastPut>>
  /\ UNCHANGED <<written, created, updated, pure>>

\* --------------------------------------------------- POST /ilinks/update
\* !restriction || !Array.isArray(restriction)
RestrictionRejected(r) == r.kind # "array"

\* The ids of the links a restriction matches.
MatchIds(ls, r) ==
  {j \in DOMAIN ls : MatchesRestriction(Link(j, ls[j].source, ls[j].target), r)}

IlinksUpdateArrive(k, restriction, substitution) ==
  /\ FreeSlot(k)
  /\ nreq' = nreq + 1
  /\ LET r == [Start("ilinksUpdate") EXCEPT !.restriction = restriction,
                                             !.substitution = substitution]
     IN IF RestrictionRejected(restriction) \/ SubstitutionRejected(substitution)
          THEN /\ lastResp' = Resp(400, <<>>, 0, r)
               /\ UNCHANGED inflight
          ELSE /\ inflight' = [inflight EXCEPT ![k] = r]
               /\ lastResp' = NoResp
  /\ UNCHANGED <<links, nextId, issued, nIssued, ackedDeleted, lastPut>>
  /\ UNCHANGED <<written, created, updated, pure>>

\* ilinks.update(restriction, substitution): overwrites the first link the
\* restriction matches with the first two elements of the substitution and
\* answers its id; it rejects when nothing matches, and may reject when more
\* than one link matches.
IlinksUpdateCall(k) ==
  /\ Waiting(k, "ilinksUpdate", "call")
  /\ LET r == inflight[k]
         it == r.substitution.items
         m == MatchIds(links, r.restriction)
     IN \/ /\ m # {}
           /\ links' = StoreUpdate(links, SetMin(m), it[1], it[2])
           /\ inflight' = [NoteWrite(inflight, k, SetMin(m)) EXCEPT
                             ![k].id = SetMin(m),
                             ![k].made = <<Link(SetMin(m), it[1], it[2])>>,
                             ![k].pc = "call2"]
           /\ lastPut' = ForgetPut(lastPut, SetMin(m))
           /\ written' = written \cup {<<SetMin(m), it[1], it[2]>>}
        \/ /\ Cardinality(m) # 1
           /\ inflight' = [inflight EXCEPT ![k].err = TRUE, ![k].pc = "reply"]
           /\ UNCHANGED <<links, lastPut, written>>
  /\ lastResp' = NoResp
  /\ UNCHANGED <<nextId, nreq, issued, nIssued, ackedDeleted>>
  /\ UNCHANGED <<created, updated, pure>>

\* linkdb.readLink(id), the handler's second await.
IlinksUpdateRead(k) ==
  /\ Waiting(k, "ilinksUpdate", "call2")
  /\ inflight' = [inflight EXCEPT
                    ![k].result = ReadLink(links, inflight[k].id),
                    ![k].pc = "reply"]
  /\ lastResp' = NoResp
  /\ UNCHANGED <<links, nextId, nreq, issued, nIssued, ackedDeleted,
                 lastPut>>
  /\ UNCHANGED <<written, created, updated, pure>>

\* res.send(formatLinksAsLN(link)); a rejected update, and formatLinksAsLN
\* of a link read back as null, end in the catch block.
IlinksUpdateReply(k) ==
  /\ Waiting(k, "ilinksUpdate", "reply")
  /\ LET r == inflight[k]
     IN lastResp' = IF r.err \/ r.result = <<>>
                      THEN Resp(500, <<>>, 0, r)
                      ELSE Resp(200, FormatLinksAsLN(r.result), 0, r)
  /\ inflight' = [inflight EXCEPT ![k] = Idle]
  /\ UNCHANGED <<links, nextId, nreq, issued, nIssued, ackedDeleted, lastPut>>
  /\ UNCHANGED <<written, created, updated, pure>>

\* --------------------------------------------------- POST /ilinks/delete
IlinksDeleteArrive(k, restriction) ==
  /\ FreeSlot(k)
  /\ nreq' = nreq + 1
  /\ LET r == [Start("ilinksDelete") EXCEPT !.restriction = restriction]
     IN IF RestrictionRejected(restriction)
          THEN /\ lastResp' = Resp(400, <<>>, 0, r)
               /\ UNCHANGED inflight
          ELSE /\ inflight' = [inflight EXCEPT ![k] = r]
               /\ lastResp' = NoResp
  /\ UNCHANGED <<links, nextId, issued, nIssued, ackedDeleted, lastPut>>
  /\ UNCHANGED <<written, created, updated, pure>>

\* ilinks.delete(restriction): removes the first link the restriction
\* matches and answers its id; it rejects when nothing matches, and may
\* reject when more than one link matches.
IlinksDeleteCall(k) ==
  /\ Waiting(k, "ilinksDelete", "call")
  /\ LET m == MatchIds(links, inflight[k].restriction)
     IN \/ /\ m # {}
           /\ links' = StoreDelete(links, {SetMin(m)})
           /\ inflight' = [NoteWrite(inflight, k, SetMin(m)) EXCEPT
                             ![k].id = SetMin(m), ![k].found = TRUE,
                             ![k].pc = "reply"]
           /\ lastPut' = ForgetPut(lastPut, SetMin(m))
        \/ /\ Cardinality(m) # 1
           /\ inflight' = [inflight EXCEPT ![k].err = TRUE, ![k].pc = "reply"]
           /\ UNCHANGED <<links, lastPut>>
  /\ lastResp' = NoResp
  /\ UNCHANGED <<nextId, nreq, issued, nIssued, ackedDeleted>>
  /\ UNCHANGED <<written, created, updated, pure>>

\* res.send(`(deleted: ${id})`)
IlinksDeleteReply(k) ==
  /\ Waiting(k, "ilinksDelete", "reply")
  /\ LET r == inflight[k]
     IN IF r.err
          THEN /\ lastResp' = Resp(500, <<>>, 0, r)
               /\ UNCHANGED ackedDeleted
          ELSE /\ lastResp' = Resp(200, <<r.id>>, 0, r)
               /\ ackedDeleted' = ackedDeleted \cup {r.id}
  /\ inflight' = [inflight EXCEPT ![k] = Idle]
  /\ UNCHANGED <<links, nextId, nreq, issued, nIssued, lastPut>>
  /\ UNCHANGED <<written, created, updated, pure>>

\* ------------------------------------------------- the catch blocks
\* e.message of a rejected store call, word by word: the link CLI is not
\* installed, or the backing file cannot be opened.
StoreFailures ==
  {<<"clink", "command", "not", "found">>,
   <<"spawn", "clink", "command", "not", "found", "ENOENT">>,
   <<"EACCES", "permission", "denied", "data/linkdb.links">>}

\* e.message.includes(pat)
Includes(msg, pat) ==
  \E i \in 1..(Len(msg) + 1 - Len(pat)) : SubSeq(msg, i, i + Len(pat) - 1) = pat

\* if (e.message.includes('clink command not found')) 503 else 500
CatchStatus(msg) ==
  IF Includes(msg, <<"clink", "command", "not", "found">>) THEN 503 ELSE 500

\* The text the catch block sends: a fixed notice with 503, e.message with
\* 500.
CatchBody(msg) ==
  IF CatchStatus(msg) = 503
    THEN <<"link-cli", "(clink)", "not", "installed">>
    ELSE msg

\* An awaited store call rejects because the store is unavailable: control
\* passes to the handler's catch block and the store is left as it was.
\* Every await of a handler's try block can reject, the third of
\* DELETE /objects/:id?recursive=true (readAllLinks) included.
StoreCallFails(k, msg) ==
  /\ inflight[k].pc \in {"call", "call2", "call3"}
  /\ inflight' = [inflight EXCEPT ![k].err = TRUE, ![k].error = msg,
                                  ![k].pc = "catch"]
  /\ lastResp' = NoResp
  /\ UNCHANGED <<links, nextId, nreq, issued, nIssued, ackedDeleted, lastPut>>
  /\ UNCHANGED <<written, created, updated, pure>>

\* e.message of a thrown value that is no Error (a thrown string, an object
\* without a message): undefined.
NoMessage == <<"undefined">>

\* What a rejected store call can be rejected with, as its e.message: an
\* Error with one of the messages above, or a value without a message.
ThrownValues == StoreFailures \cup {NoMessage}

\* catch (e): the error response; the store call is not made again.  When
\* e.message is undefined, e.message.includes(...) throws a TypeError inside
\* the catch block: the handler ends there and sends nothing.
CatchReply(k) ==
  /\ inflight[k].pc = "catch"
  /\ lastResp' = IF inflight[k].error = NoMessage
                   THEN NoResp
                   ELSE Resp(CatchStatus(inflight[k].error),
                             CatchBody(inflight[k].error), 0, inflight[k])
  /\ inflight' = [inflight EXCEPT ![k] = Idle]
  /\ UNCHANGED <<links, nextId, nreq, issued, nIssued, ackedDeleted, lastPut>>
  /\ UNCHANGED <<written, created, updated, pure>>

\* ------------------------------------------------- JS strings, as characters
\* A string is the sequence of its characters.
NL == "\n"

White == {" ", NL, "\t"}

DigitChars == <<"0", "1", "2", "3", "4", "5", "6", "7", "8", "9">>

IsDigit(c) == \E d \in 1..10 : DigitChars[d] = c

DigitVal(c) == (CHOOSE d \in 1..10 : DigitChars[d] = c) - 1

\* String(n) of a non-negative integer: its decimal digits.
RECURSIVE Digits(_)
Digits(n) ==
  IF n < 10 THEN <<DigitChars[n + 1]>>
  ELSE Digits(n \div 10) \o <<DigitChars[(n % 10) + 1]>>

RECURSIVE DigitsValue(_)
DigitsValue(ds) ==
  IF ds = <<>> THEN 0
  ELSE DigitsValue(SubSeq(ds, 1, Len(ds) - 1)) * 10 + DigitVal(ds[Len(ds)])

RECURSIVE TrimStart(_)
TrimStart(cs) ==
  IF cs # <<>> /\ Head(cs) \in White THEN TrimStart(Tail(cs)) ELSE cs

RECURSIVE TrimEnd(_)
TrimEnd(cs) ==
  IF cs # <<>> /\ cs[Len(cs)] \in White
    THEN TrimEnd(SubSeq(cs, 1, Len(cs) - 1))
    ELSE cs

\* s.trim()
Trim(cs) == TrimEnd(TrimStart(cs))

\* s.startsWith(c), s.includes(c) for a one-character c
StartsWith(cs, c) == cs # <<>> /\ cs[1] = c

IncludesChar(cs, c) == \E i \in 1..Len(cs) : cs[i] = c

\* s.split(c) for a one-character separator c
RECURSIVE Split(_, _)
Split(cs, c) ==
  IF ~IncludesChar(cs, c) THEN <<cs>>
  ELSE LET i == CHOOSE i \in 1..Len(cs) :
                  cs[i] = c /\ \A j \in 1..(i - 1) : cs[j] # c
       IN <<SubSeq(cs, 1, i - 1)>> \o Split(SubSeq(cs, i + 1, Len(cs)), c)

\* parts.join(sep)
RECURSIVE Join(_, _)
Join(parts, sep) ==
  IF parts = <<>> THEN <<>>
  ELSE IF Len(parts) = 1 THEN parts[1]
  ELSE parts[1] \o sep \o Join(Tail(parts), sep)

\* The number of digits s begins with.
RECURSIVE LeadingDigits(_)
LeadingDigits(cs) ==
  IF cs # <<>> /\ IsDigit(Head(cs)) THEN 1 + LeadingDigits(Tail(cs)) ELSE 0

\* parseInt(s, 10) of a string without a sign: leading white space is
\* skipped, the digits up to the first other character are read, NaN when
\* there is none.
ParseIntChars(cs) ==
  LET t == TrimStart(cs)
      n == LeadingDigits(t)
  IN IF n = 0 THEN NaN ELSE DigitsValue(SubSeq(t, 1, n))

\* x || 0 of a number: NaN and 0 are falsy.
OrZero(n) == IF IsNaN(n) \/ n = 0 THEN 0 ELSE n

\* ---------------------------------------------------------- export/import
ExportFormats == {"ln", "json", "csv"}

\* (id: source target)
LinkText(link) ==
  <<"(">> \o Digits(link.id) \o <<":", " ">> \o Digits(link.source)
    \o <<" ">> \o Digits(link.target) \o <<")">>

ExportToLinksNotation(ls) ==
  IF Len(ls) = 0 THEN <<"(", ")", NL>>
  ELSE Join([i \in 1..Len(ls) |-> LinkText(ls[i])], <<NL>>) \o <<NL>>

\* "key": value (pretty) or "key":value
JsonMember(key, n, pretty) ==
  <<"\"">> \o key \o <<"\"", ":">> \o (IF pretty THEN <<" ">> ELSE <<>>)
    \o Digits(n)

\* One link as a JSON object, at the indentation JSON.stringify(_, null, 2)
\* gives the elements of an array.
JsonObject(link, pretty) ==
  LET members == <<JsonMember(<<"i", "d">>, link.id, pretty),
                   JsonMember(<<"s", "o", "u", "r", "c", "e">>, link.source,
                              pretty),
                   JsonMember(<<"t", "a", "r", "g", "e", "t">>, link.target,
                              pretty)>>
      in4 == <<" ", " ", " ", " ">>
  IN IF pretty
       THEN <<" ", " ", "{", NL>>
              \o Join([i \in 1..3 |-> in4 \o members[i]], <<",", NL>>)
              \o <<NL, " ", " ", "}">>
       ELSE <<"{">> \o Join(members, <<",">>) \o <<"}">>

\* JSON.stringify(links, null, 2) or JSON.stringify(links)
ExportToJSON(ls, pretty) ==
  IF Len(ls) = 0 THEN <<"[", "]">>
  ELSE IF pretty
    THEN <<"[", NL>>
           \o Join([i \in 1..Len(ls) |-> JsonObject(ls[i], TRUE)], <<",", NL>>)
           \o <<NL, "]">>
  ELSE <<"[">> \o Join([i \in 1..Len(ls) |-> JsonObject(ls[i], FALSE)], <<",">>)
         \o <<"]">>

CsvHeader(delimiter) ==
  <<"i", "d">> \o delimiter \o <<"s", "o", "u", "r", "c", "e">> \o delimiter
    \o <<"t", "a", "r", "g", "e", "t">>

CsvRowTargetFirst(link, delimiter) ==
  Digits(link.id) \o delimiter \o Digits(link.target) \o delimiter
    \o Digits(link.source)

CsvRow(link, delimiter) ==
  Digits(link.id) \o delimiter \o Digits(link.source) \o delimiter
    \o Digits(link.target)

ExportToCSV(ls, delimiter, includeHeader) ==
  IF Len(ls) = 0
    THEN IF includeHeader THEN CsvHeader(delimiter) \o <<NL>> ELSE <<>>
  ELSE LET head == IF includeHeader THEN <<CsvHeader(delimiter)>> ELSE <<>>
           rows == [i \in 1..Len(ls) |-> CsvRow(ls[i], delimiter)]
       IN Join(head \o rows, <<NL>>) \o <<NL>>

\* The options object: a key that is not given is undefined.
DefaultOptions ==
  [delimiter |-> <<>>, includeHeader |-> TRUE, pretty |-> TRUE,
   hasHeader |-> TRUE]

\* options.delimiter || ','
DelimiterOrComma(options) ==
  IF options.delimiter = <<>> THEN <<",">> ELSE options.delimiter

ExportLinks(ls, format, options) ==
  CASE format = "ln" -> ExportToLinksNotation(ls)
    [] format = "json" -> ExportToJSON(ls, options.pretty)
    [] format = "csv" ->
         ExportToCSV(ls, DelimiterOrComma(options), options.includeHeader)

\* The lines of a text that are not blank: split('\n').filter(l => l.trim())
NonBlankLines(cs) == SelectSeq(Split(cs, NL), LAMBDA l : Trim(l) # <<>>)

\* new Parser().parse(content) of the links-notation package, for texts of
\* one "(id: value value)" link per line: each item's id (null, here the
\* empty string, without a label) and the ids of its values.
ParseNotationLine(line) ==
  LET t == Trim(line)
      inner == IF StartsWith(t, "(") /\ t[Len(t)] = ")"
                 THEN SubSeq(t, 2, Len(t) - 1)
                 ELSE t
      parts == Split(inner, ":")
      label == IF Len(parts) >= 2 THEN Trim(parts[1]) ELSE <<>>
      rest == IF Len(parts) >= 2 THEN parts[2] ELSE inner
  IN [id |-> label,
      values |-> SelectSeq(Split(Trim(rest), " "), LAMBDA v : v # <<>>)]

ParseNotation(cs) ==
  LET ls == NonBlankLines(cs)
  IN [i \in 1..Len(ls) |-> ParseNotationLine(ls[i])]

ImportFromLinksNotation(content) ==
  IF content = <<>> THEN <<>>
  ELSE LET parsed == ParseNotation(content)
           link(item) ==
             [source |-> IF Len(item.values) >= 1
                           THEN OrZero(ParseIntChars(item.values[1]))
                           ELSE 0,
              target |-> IF Len(item.values) >= 2
                           THEN OrZero(ParseIntChars(item.values[2]))
                           ELSE 0,
              originalId |-> IF item.id # <<>>
                               THEN ParseIntChars(item.id)
                               ELSE Undefined]
       IN [i \in 1..Len(parsed) |-> link(parsed[i])]

\* JSON.parse of one object of number members, white space removed: the set
\* of its <<key, value>> members; ok is FALSE where JSON.parse throws.
JsonParseObject(cs) ==
  LET wrapped == Len(cs) >= 2 /\ cs[1] = "{" /\ cs[Len(cs)] = "}"
      body == IF wrapped THEN SubSeq(cs, 2, Len(cs) - 1) ELSE <<>>
      members == IF body = <<>> THEN <<>> ELSE Split(body, ",")
      kv(m) == Split(m, ":")
      good(m) ==
        /\ Len(kv(m)) = 2
        /\ Len(kv(m)[1]) >= 2
        /\ kv(m)[1][1] = "\""
        /\ kv(m)[1][Len(kv(m)[1])] = "\""
        /\ kv(m)[2] # <<>>
        /\ LeadingDigits(kv(m)[2]) = Len(kv(m)[2])
      key(m) == SubSeq(kv(m)[1], 2, Len(kv(m)[1]) - 1)
  IN IF wrapped /\ \A i \in 1..Len(members) : good(members[i])
       THEN [ok |-> TRUE,
             obj |-> {<<key(members[i]), DigitsValue(kv(members[i])[2])>> :
                        i \in 1..Len(members)}]
       ELSE [ok |-> FALSE, obj |-> {}]

\* The elements of an array text "{..},{..}": the text up to each "}".
RECURSIVE JsonElements(_)
JsonElements(cs) ==
  IF cs = <<>> THEN <<>>
  ELSE IF ~IncludesChar(cs, "}") THEN <<cs>>
  ELSE LET i == CHOOSE i \in 1..Len(cs) :
                  cs[i] = "}" /\ \A j \in 1..(i - 1) : cs[j] # "}"
           rest == SubSeq(cs, i + 1, Len(cs))
       IN <<SubSeq(cs, 1, i)>>
            \o (IF rest = <<>> THEN <<>>
                ELSE IF Head(rest) = "," /\ Len(rest) > 1
                  THEN JsonElements(Tail(rest))
                ELSE <<rest>>)

\* JSON.parse(content) for an array of such objects or one such object.
JsonParse(content) ==
  LET s == SelectSeq(content, LAMBDA c : c \notin White)
      isArray == Len(s) >= 2 /\ s[1] = "[" /\ s[Len(s)] = "]"
      elems == IF isArray THEN JsonElements(SubSeq(s, 2, Len(s) - 1)) ELSE <<s>>
      objs == [i \in 1..Len(elems) |-> JsonParseObject(elems[i])]
  IN [ok |-> \A i \in 1..Len(objs) : objs[i].ok,
      isArray |-> isArray,
      items |-> [i \in 1..Len(objs) |-> objs[i].obj]]

\* item.key: the member's value, or undefined
Field(obj, key) ==
  IF \E p \in obj : p[1] = key
    THEN (CHOOSE p \in obj : p[1] = key)[2]
    ELSE Undefined

\* parseInt(v, 10) of a number or undefined: of its string
ParseIntOfValue(v) == IF v = Undefined THEN NaN ELSE ParseIntChars(Digits(v))

\* What importFromJSON throws for a text JSON.parse rejects.
InvalidJSON == <<"Invalid JSON">>

ImportFromJSON(content) ==
  IF content = <<>> THEN <<>>
  ELSE LET data == JsonParse(content)
           link(item) ==
             [source |->
                OrZero(ParseIntOfValue(Field(item, <<"s", "o", "u", "r", "c", "e">>))),
              target |->
                OrZero(ParseIntOfValue(Field(item, <<"t", "a", "r", "g", "e", "t">>))),
              originalId |->
                IF Field(item, <<"i", "d">>) # Undefined
                  THEN ParseIntOfValue(Field(item, <<"i", "d">>))
                  ELSE Undefined]
       IN IF ~data.ok THEN InvalidJSON
          ELSE IF ~data.isArray THEN data.items
          ELSE [i \in 1..Len(data.items) |-> link(data.items[i])]

\* c.toLowerCase() on the letters of the header names
LowerChar(c) ==
  CASE c = "I" -> "i" [] c = "D" -> "d" [] c = "S" -> "s" [] c = "O" -> "o"
    [] c = "U" -> "u" [] c = "R" -> "r" [] c = "C" -> "c" [] c = "E" -> "e"
    [] c = "T" -> "t" [] c = "A" -> "a" [] c = "G" -> "g" [] OTHER -> c

ToLowerCase(cs) == [i \in 1..Len(cs) |-> LowerChar(cs[i])]

\* header.indexOf(name), zero-based, -1 when absent
IndexOf(header, name) ==
  IF \E i \in 1..Len(header) : header[i] = name
    THEN (CHOOSE i \in 1..Len(header) :
            header[i] = name /\ \A j \in 1..(i - 1) : header[j] # name) - 1
    ELSE -1

\* fields[index]: undefined (here the empty string, equally falsy and
\* equally NaN for parseInt) outside the array
FieldAt(fields, index) ==
  IF index + 1 \in 1..Len(fields) THEN fields[index + 1] ELSE <<>>

ImportFromCSV(content, delimiter, hasHeader) ==
  IF content = <<>> THEN <<>>
  ELSE
    LET lines == NonBlankLines(content)
        cells(l) == LET f == Split(l, delimiter[1])
                    IN [i \in 1..Len(f) |-> Trim(f[i])]
        header == IF hasHeader /\ Len(lines) > 0
                    THEN LET h == cells(lines[1])
                         IN [i \in 1..Len(h) |-> ToLowerCase(h[i])]
                    ELSE <<>>
        found(name, fallback) ==
          IF IndexOf(header, name) = -1 THEN fallback ELSE IndexOf(header, name)
        idIndex == IF hasHeader THEN IndexOf(header, <<"i", "d">>) ELSE 0
        sourceIndex ==
          IF hasHeader THEN found(<<"s", "o", "u", "r", "c", "e">>, 1) ELSE 1
        targetIndex ==
          IF hasHeader THEN found(<<"t", "a", "r", "g", "e", "t">>, 2) ELSE 2
        startIndex == IF hasHeader THEN 1 ELSE 0
        link(l) ==
          LET fields == cells(l)
          IN [source |-> OrZero(ParseIntChars(FieldAt(fields, sourceIndex))),
              target |-> OrZero(ParseIntChars(FieldAt(fields, targetIndex))),
              originalId |->
                IF idIndex >= 0 /\ FieldAt(fields, idIndex) # <<>>
                  THEN ParseIntChars(FieldAt(fields, idIndex))
                  ELSE Undefined]
    IN IF Len(lines) = 0 THEN <<>>
       ELSE [i \in 1..(Len(lines) - startIndex) |-> link(lines[i + startIndex])]

ImportLinks(content, format, options) ==
  CASE format = "ln" -> ImportFromLinksNotation(content)
    [] format = "json" -> ImportFromJSON(content)
    [] format = "csv" ->
         ImportFromCSV(content, DelimiterOrComma(options), options.hasHeader)

DetectFormat(content) ==
  IF content = <<>> THEN "ln"
  ELSE LET trimmed == Trim(content)
           lines == Split(trimmed, NL)
       IN IF (StartsWith(trimmed, "[") \/ StartsWith(trimmed, "{"))
               /\ JsonParse(trimmed).ok
            THEN "json"
          ELSE IF IncludesChar(lines[1], ",") /\ ~StartsWith(lines[1], "(")
            THEN "csv"
          ELSE "ln"

\* ------------------------------------- the export/import functions, called
\* Values of id, source and target in the exported lists.
CodecNums == {0, 12}

\* The longest exported list.
MaxLinkList == 2

LinkLists ==
  UNION {[1..n -> {Link(i, s, t) : i \in CodecNums, s \in CodecNums,
                                   t \in CodecNums}] : n \in 0..MaxLinkList}

\* Options objects: none given, or one key given.
CodecOptions ==
  {DefaultOptions,
   [DefaultOptions EXCEPT !.delimiter = <<";">>],
   [DefaultOptions EXCEPT !.delimiter = <<"\t">>],
   [DefaultOptions EXCEPT !.includeHeader = FALSE],
   [DefaultOptions EXCEPT !.pretty = FALSE]}

\* The keys of a link in JSON.
JsonKeys ==
  <<<<"i", "d">>, <<"s", "o", "u", "r", "c", "e">>,
    <<"t", "a", "r", "g", "e", "t">>>>

\* The objects of the imported JSON texts: each of id, source and target is
\* a number, or left out (Undefined).
JsonItems == [1..3 -> CodecNums \cup {Undefined}]

\* The text of one such object, alone or as the only element of an array.
JsonText(m, isArray) ==
  LET present == SelectSeq(<<1, 2, 3>>, LAMBDA i : m[i] # Undefined)
      object ==
        <<"{">>
          \o Join([i \in 1..Len(present) |->
                     JsonMember(JsonKeys[present[i]], m[present[i]], FALSE)],
                  <<",">>)
          \o <<"}">>
  IN IF isArray THEN <<"[">> \o object \o <<"]">> ELSE object

\* The keys and values of a record importFromJSON built, as the members of
\* an object.
MembersOf(link) ==
  {<<<<"s", "o", "u", "r", "c", "e">>, link.source>>,
   <<<<"t", "a", "r", "g", "e", "t">>, link.target>>,
   <<<<"o", "r", "i", "g", "i", "n", "a", "l", "I", "d">>, link.originalId>>}

CodecInit ==
  /\ links = <<>>
  /\ nextId = 1
  /\ inflight = [k \in Slots |-> Idle]
  /\ nreq = 0
  /\ lastResp = NoResp
  /\ issued = {}
  /\ nIssued = 0
  /\ ackedDeleted = {}
  /\ lastPut = <<>>
  /\ written = {}
  /\ created = {}
  /\ updated = <<>>
  /\ pure \in {[fn |-> "codec", phase |-> "start", links |-> ls, format |-> f,
                options |-> o, content |-> <<>>, detected |-> "",
                imported |-> <<>>] :
                 ls \in LinkLists, f \in ExportFormats, o \in CodecOptions}
              \cup
              {[fn |-> "importFromJSON", phase |-> "start", item |-> m,
                isArray |-> a, content |-> JsonText(m, a), imported |-> <<>>,
                members |-> <<>>] : m \in JsonItems, a \in BOOLEAN}

\* content = exportLinks(links, format, options)
ExportLinksCall ==
  /\ pure.fn = "codec" /\ pure.phase = "start"
  /\ pure' = [pure EXCEPT !.content = ExportLinks(pure.links, pure.format, pure.options),
                          !.phase = "exported"]
  /\ UNCHANGED server

\* detectFormat(content)
DetectFormatCall ==
  /\ pure.fn = "codec" /\ pure.phase = "exported"
  /\ pure' = [pure EXCEPT !.detected = DetectFormat(pure.content),
                          !.phase = "detected"]
  /\ UNCHANGED server

\* importLinks(content, format, options)
ImportLinksCall ==
  /\ pure.fn = "codec" /\ pure.phase = "detected"
  /\ pure' = [pure EXCEPT !.imported = ImportLinks(pure.content, pure.format, pure.options),
                          !.phase = "imported"]
  /\ UNCHANGED server

\* importFromJSON(content); members is the result seen as objects with keys:
\* the records built for an array, the parsed object itself otherwise.
ImportFromJSONCall ==
  /\ pure.fn = "importFromJSON" /\ pure.phase = "start"
  /\ LET result == ImportFromJSON(pure.content)
     IN pure' = [pure EXCEPT
                   !.imported = result,
                   !.members = IF JsonParse(pure.content).isArray
                                 THEN [i \in 1..Len(result) |-> MembersOf(result[i])]
                                 ELSE result,
                   !.phase = "imported"]
  /\ UNCHANGED server

\* ----------------------------------------------------------- configuration
\* A value of the .lenv file or of the environment: a string, or undefined.
Given(text) == [defined |-> TRUE, text |-> text]

NotGiven == [defined |-> FALSE, text |-> <<>>]

\* Number(v): NaN for undefined and for a text that is not a number, 0 for
\* the empty string.
NumberOf(v) ==
  IF ~v.defined THEN NaN
  ELSE IF Trim(v.text) = <<>> THEN 0
  ELSE IF LeadingDigits(Trim(v.text)) = Len(Trim(v.text))
    THEN DigitsValue(Trim(v.text))
  ELSE NaN

\* A number is truthy unless it is NaN or 0; a string unless it is undefined
\* or empty.
TruthyNumber(n) == ~IsNaN(n) /\ n # 0

TruthyString(v) == v.defined /\ v.text # <<>>

DefaultPort == 3000

DefaultHost == <<"0.0.0.0">>

\* path.join(__dirname, '../data/linkdb.links')
DefaultDbPath == <<"__dirname/../data/linkdb.links">>

\* Number(env.get('server.port')) || Number(process.env.PORT) || 3000
ConfigPort(lenv, environ) ==
  IF TruthyNumber(NumberOf(lenv.port)) THEN NumberOf(lenv.port)
  ELSE IF TruthyNumber(NumberOf(environ.PORT)) THEN NumberOf(environ.PORT)
  ELSE DefaultPort

\* env.get('server.host') || process.env.HOST || '0.0.0.0'
ConfigHost(lenv, environ) ==
  IF TruthyString(lenv.host) THEN lenv.host.text
  ELSE IF TruthyString(environ.HOST) THEN environ.HOST.text
  ELSE DefaultHost

\* env.get('db.path') || process.env.DB_PATH || path.join(...)
ConfigDbPath(lenv, environ) ==
  IF TruthyString(lenv.db) THEN lenv.db.text
  ELSE IF TruthyString(environ.DB_PATH) THEN environ.DB_PATH.text
  ELSE DefaultDbPath

\* The .lenv files and environments the server is started with.
LenvFiles ==
  {[port |-> p, host |-> h, db |-> d] :
     p \in {NotGiven, Given(<<"3", "0", "0", "0">>), Given(<<"8", "0", "8", "0">>)},
     h \in {NotGiven, Given(<<"127.0.0.1">>)},
     d \in {NotGiven, Given(<<"data/linkdb.links">>)}}

Environments ==
  {[PORT |-> p, HOST |-> h, DB_PATH |-> d] :
     p \in {NotGiven, Given(<<"8", "0", "8", "0">>), Given(<<"9", "0", "9", "0">>)},
     h \in {NotGiven, Given(<<"localhost">>)},
     d \in {NotGiven, Given(<<"/tmp/db.links">>)}}

ConfigInit ==
  /\ links = <<>>
  /\ nextId = 1
  /\ inflight = [k \in Slots |-> Idle]
  /\ nreq = 0
  /\ lastResp = NoResp
  /\ issued = {}
  /\ nIssued = 0
  /\ ackedDeleted = {}
  /\ lastPut = <<>>
  /\ written = {}
  /\ created = {}
  /\ updated = <<>>
  /\ pure \in {[fn |-> "config", phase |-> "start", lenv |-> l, environ |-> e,
                PORT |-> 0, HOST |-> <<>>, DB_PATH |-> <<>>] :
                 l \in LenvFiles, e \in Environments}

\* The module's top level: const PORT, HOST, DB_PATH.
LoadConfig ==
  /\ pure.fn = "config" /\ pure.phase = "start"
  /\ pure' = [pure EXCEPT !.PORT = ConfigPort(pure.lenv, pure.environ),
                          !.HOST = ConfigHost(pure.lenv, pure.environ),
                          !.DB_PATH = ConfigDbPath(pure.lenv, pure.environ),
                          !.phase = "loaded"]
  /\ UNCHANGED server

\* ----------------------------------------------------------------- filters
\* null
Null == -3

\* A filter value that is null or undefined rather than a string.
NullValue == <<"null">>

FilterOperators ==
  {"eq", "ne", "gt", "gte", "lt", "lte", "contains", "startsWith", "endsWith",
   "in", "notIn", "between", "isNull", "isNotNull"}

\* The keys a parsed filter may carry, with the value of an absent key.
ParsedFilter(operator) ==
  [operator |-> operator, value |-> <<>>, values |-> <<>>, from |-> Null,
   to |-> Null, negated |-> FALSE, isReference |-> FALSE]

\* s.startsWith(p), s.endsWith(p), s.includes(p) for a string p
StartsWithStr(cs, p) == Len(cs) >= Len(p) /\ SubSeq(cs, 1, Len(p)) = p

EndsWithStr(cs, p) ==
  Len(cs) >= Len(p) /\ SubSeq(cs, Len(cs) - Len(p) + 1, Len(cs)) = p

\* s.split(sep) for a non-empty string sep
RECURSIVE SplitOn(_, _)
SplitOn(cs, sep) ==
  IF ~Includes(cs, sep) THEN <<cs>>
  ELSE LET i == CHOOSE i \in 1..(Len(cs) + 1 - Len(sep)) :
                  /\ SubSeq(cs, i, i + Len(sep) - 1) = sep
                  /\ \A j \in 1..(i - 1) : SubSeq(cs, j, j + Len(sep) - 1) # sep
       IN <<SubSeq(cs, 1, i - 1)>>
            \o SplitOn(SubSeq(cs, i + Len(sep), Len(cs)), sep)

\* String(n): the digits of a number, "NaN", "undefined"
StringOf(n) ==
  IF n = Undefined THEN <<"u", "n", "d", "e", "f", "i", "n", "e", "d">>
  ELSE IF IsNaN(n) THEN <<"N", "a", "N">>
  ELSE Digits(n)

\* parseFloat(s) of a text without sign or decimal point: as parseInt
ParseFloatChars(cs) == ParseIntChars(cs)

RECURSIVE ParseFilterValue(_)
ParseFilterValue(value) ==
  IF value = NullValue THEN ParsedFilter("isNull")
  ELSE
    LET strValue == Trim(value)
        range == LET p == SplitOn(strValue, <<".", ".">>)
                 IN [i \in 1..Len(p) |-> Trim(p[i])]
        list == LET p == Split(strValue, ",")
                IN [i \in 1..Len(p) |-> Trim(p[i])]
    IN IF StartsWith(strValue, "!")
         THEN [ParseFilterValue(Tail(strValue)) EXCEPT !.negated = TRUE]
       ELSE IF StartsWith(strValue, "@")
         THEN [ParsedFilter("eq") EXCEPT
                 !.value = StringOf(ParseIntChars(Tail(strValue))),
                 !.isReference = TRUE]
       ELSE IF Includes(strValue, <<".", ".">>)
         THEN [ParsedFilter("between") EXCEPT
                 !.from = IF range[1] # <<>> THEN ParseFloatChars(range[1])
                          ELSE Null,
                 !.to = IF range[2] # <<>> THEN ParseFloatChars(range[2])
                        ELSE Null]
       ELSE IF IncludesChar(strValue, ",")
         THEN [ParsedFilter("in") EXCEPT !.values = list]
       ELSE IF StartsWithStr(strValue, <<">", "=">>)
         THEN [ParsedFilter("gte") EXCEPT
                 !.value = StringOf(ParseFloatChars(SubSeq(strValue, 3, Len(strValue))))]
       ELSE IF StartsWithStr(strValue, <<"<", "=">>)
         THEN [ParsedFilter("lte") EXCEPT
                 !.value = StringOf(ParseFloatChars(SubSeq(strValue, 3, Len(strValue))))]
       ELSE IF StartsWith(strValue, ">")
         THEN [ParsedFilter("gt") EXCEPT
                 !.value = StringOf(ParseFloatChars(Tail(strValue)))]
       ELSE IF StartsWith(strValue, "<")
         THEN [ParsedFilter("lt") EXCEPT
                 !.value = StringOf(ParseFloatChars(Tail(strValue)))]
       ELSE IF StartsWith(strValue, "*") /\ strValue[Len(strValue)] = "*"
         THEN [ParsedFilter("contains") EXCEPT
                 !.value = SubSeq(strValue, 2, Len(strValue) - 1)]
       ELSE IF strValue # <<>> /\ strValue[Len(strValue)] = "*"
         THEN [ParsedFilter("startsWith") EXCEPT
                 !.value = SubSeq(strValue, 1, Len(strValue) - 1)]
       ELSE IF StartsWith(strValue, "*")
         THEN [ParsedFilter("endsWith") EXCEPT !.value = Tail(strValue)]
       ELSE [ParsedFilter("eq") EXCEPT !.value = strValue]

\* Number(v) of a tested value (a number or undefined) and of a filter's
\* value (the text of a number, or "NaN")
NumberOfTested(v) == IF v = Undefined THEN NaN ELSE v

NumberOfText(cs) ==
  IF Trim(cs) = <<>> THEN 0
  ELSE IF LeadingDigits(Trim(cs)) = Len(Trim(cs)) THEN DigitsValue(Trim(cs))
  ELSE NaN

\* a < b, a <= b on numbers: false when either is NaN
Less(a, b) == ~IsNaN(a) /\ ~IsNaN(b) /\ a < b

\* a comparison that excludes the bound itself
LessExcludingBound(a, b) == ~IsNaN(a) /\ ~IsNaN(b) /\ a + 1 <= b

LessOrEqual(a, b) == ~IsNaN(a) /\ ~IsNaN(b) /\ a <= b

\* The switch of applyFilter, before the negation.
OperatorResult(value, filter) ==
  LET op == filter.operator
      text == StringOf(value)
      num == NumberOfTested(value)
      fnum == NumberOfText(filter.value)
  IN CASE op = "eq" -> text = filter.value
       [] op = "ne" -> text # filter.value
       [] op = "gt" -> Less(fnum, num)
       [] op = "gte" -> LessOrEqual(fnum, num)
       [] op = "lt" -> Less(num, fnum)
       [] op = "lte" -> LessOrEqual(num, fnum)
       [] op = "contains" ->
            Includes(ToLowerCase(text), ToLowerCase(filter.value))
       [] op = "startsWith" ->
            StartsWithStr(ToLowerCase(text), ToLowerCase(filter.value))
       [] op = "endsWith" ->
            EndsWithStr(ToLowerCase(text), ToLowerCase(filter.value))
       [] op = "in" -> \E i \in 1..Len(filter.values) : text = filter.values[i]
       [] op = "notIn" ->
            ~\E i \in 1..Len(filter.values) : text = filter.values[i]
       [] op = "between" ->
            /\ filter.from = Null \/ LessOrEqual(filter.from, num)
            /\ filter.to = Null \/ LessOrEqual(num, filter.to)
       [] op = "isNull" -> value = Undefined
       [] op = "isNotNull" -> value # Undefined
       [] OTHER -> TRUE

ApplyFilter(value, filter) ==
  IF filter.negated
    THEN ~OperatorResult(value, filter)
    ELSE OperatorResult(value, filter)

\* getField: item[field], undefined for a field the item lacks
GetField(item, field) ==
  IF field \in DOMAIN item THEN item[field] ELSE Undefined

\* filters is null or undefined
MissingFilters == [missing |-> TRUE]

\* Object.entries(parsedFilters): the fields, in the order the keys are kept
FieldOrder == <<"id", "source", "target">>

Entries(filters) == SelectSeq(FieldOrder, LAMBDA f : f \in DOMAIN filters)

\* The for loop of the items.filter callback: false at the first filter the
\* item fails, true after the last.

RECURSIVE PassesSomeFilter(_, _, _)
PassesSomeFilter(item, parsedFilters, fields) ==
  IF fields = <<>> THEN FALSE
  ELSE IF ApplyFilter(GetField(item, Head(fields)), parsedFilters[Head(fields)])
    THEN TRUE
  ELSE PassesSomeFilter(item, parsedFilters, Tail(fields))

RECURSIVE PassesFilters(_, _, _)
PassesFilters(item, parsedFilters, fields) ==
  IF fields = <<>> THEN TRUE
  ELSE IF ~ApplyFilter(GetField(item, Head(fields)), parsedFilters[Head(fields)])
    THEN FALSE
  ELSE PassesFilters(item, parsedFilters, Tail(fields))

ApplyFilters(items, filters) ==
  IF filters = MissingFilters \/ DOMAIN filters = {} THEN items
  ELSE LET parsedFilters ==
             [f \in DOMAIN filters |-> ParseFilterValue(filters[f])]
       IN SelectSeq(items,
                    LAMBDA item : PassesFilters(item, parsedFilters, Entries(filters)))

FilterLinks(ls, filters) == ApplyFilters(ls, filters)

\* ------------------------------------------------ the filters, called
\* Filter value strings.
FilterValues ==
  {<<"1", "0", "0">>, <<"!", "1", "0", "0">>, <<"!", "!", "1", "0", "0">>, <<"1", ".", ".", "1", "0", "0">>, <<"2", "0", "0", ".", ".">>, <<"1", "0", "0", ",", "2", "0", "0">>, <<">", "=", "1", "0", "0">>, <<"<", "1", "0", "0">>, <<"*", "0", "*">>,
   <<"1", "*">>, <<"*", "0", "0">>, <<"@", "1", "0", "0">>, <<>>, <<" ", "1", "0", "0", " ">>, NullValue}

\* Tested values.
FilterSubjects == {1, 100, 200, Undefined}

\* The links of the filterLinks tests.
TestLinks ==
  {Link(1, 100, 200), Link(2, 100, 300), Link(3, 200, 300), Link(4, 300, 400)}

\* The longest filtered list.
MaxFiltered == 2

FilteredLists == UNION {[1..n -> TestLinks] : n \in 0..MaxFiltered}

\* The filter values of the filters objects.
FieldFilters == {<<"1", "0", "0">>, <<"!", "1", "0", "0">>, <<"1", ".", ".", "1", "0", "0">>, <<"1", "0", "0", ",", "2", "0", "0">>, <<">", "=", "1", "0", "0">>, <<"*", "0", "0">>}

FiltersObjects ==
  {MissingFilters}
    \cup UNION {[F -> FieldFilters] : F \in SUBSET {"id", "source", "target"}}

\* The largest bound of a range filter; the tested values go one further.
MaxRangeEnd == 3

\* A bound of a range: a number, or Null for an omitted bound.
RangeEnds == (0..MaxRangeEnd) \cup {Null}

\* The text 'a..b' of a range, an omitted bound written as nothing.
RangeText(a, b) ==
  (IF a = Null THEN <<>> ELSE Digits(a))
    \o <<".", ".">> \o (IF b = Null THEN <<>> ELSE Digits(b))

FilterInit ==
  /\ links = <<>>
  /\ nextId = 1
  /\ inflight = [k \in Slots |-> Idle]
  /\ nreq = 0
  /\ lastResp = NoResp
  /\ issued = {}
  /\ nIssued = 0
  /\ ackedDeleted = {}
  /\ lastPut = <<>>
  /\ written = {}
  /\ created = {}
  /\ updated = <<>>
  /\ pure \in
       {[fn |-> "negation", phase |-> "start", v |-> v, x |-> x,
         plain |-> ParsedFilter("eq"), negation |-> ParsedFilter("eq"),
         accepts |-> FALSE, acceptsNegation |-> FALSE] :
          v \in FilterValues \ {NullValue}, x \in FilterSubjects}
       \cup
       {[fn |-> "filterLinks", phase |-> "start", links |-> ls, filters |-> fs,
         result |-> <<>>] : ls \in FilteredLists, fs \in FiltersObjects}
       \cup
       {[fn |-> "range", phase |-> "start", from |-> a, to |-> b, x |-> x,
         filter |-> ParsedFilter("eq"), accepts |-> FALSE] :
          a \in RangeEnds, b \in RangeEnds, x \in 0..(MaxRangeEnd + 1)}

\* parseFilterValue(v) and parseFilterValue('!' + v)
ParseFilterValueCall ==
  /\ pure.fn = "negation" /\ pure.phase = "start"
  /\ pure' = [pure EXCEPT !.plain = ParseFilterValue(pure.v),
                          !.negation = ParseFilterValue(<<"!">> \o pure.v),
                          !.phase = "parsed"]
  /\ UNCHANGED server

\* applyFilter(x, filter) with each of the two
ApplyFilterCall ==
  /\ pure.fn = "negation" /\ pure.phase = "parsed"
  /\ pure' = [pure EXCEPT !.accepts = ApplyFilter(pure.x, pure.plain),
                          !.acceptsNegation = ApplyFilter(pure.x, pure.negation),
                          !.phase = "applied"]
  /\ UNCHANGED server

\* filterLinks(links, filters)
FilterLinksCall ==
  /\ pure.fn = "filterLinks" /\ pure.phase = "start"
  /\ pure' = [pure EXCEPT !.result = FilterLinks(pure.links, pure.filters),
                          !.phase = "filtered"]
  /\ UNCHANGED server

\* applyFilter(x, parseFilterValue('a..b'))
RangeFilterCall ==
  /\ pure.fn = "range" /\ pure.phase = "start"
  /\ pure' = [pure EXCEPT
                !.filter = ParseFilterValue(RangeText(pure.from, pure.to)),
                !.accepts =
                  ApplyFilter(pure.x,
                              ParseFilterValue(RangeText(pure.from, pure.to))),
                !.phase = "applied"]
  /\ UNCHANGED server

\* ------------------------------------------------- the objects routes
\* TYPE_MARKERS: the sources of the links that mark an object's properties.
OBJECT_TYPE == 1000000
OBJECT_PARENT == 1000001
OBJECT_ORDER == 1000002
OBJECT_VALUE == 1000003

TYPE_MARKERS == {OBJECT_TYPE, OBJECT_PARENT, OBJECT_ORDER, OBJECT_VALUE}

\* link?.target || 0 of a link found (a sequence of one) or not (empty)
TargetOrZero(found) == IF found = <<>> THEN 0 ELSE found[1].target

FormatObject(id, typeLink, parentLink, orderLink, valueLink) ==
  [id |-> id, t |-> TargetOrZero(typeLink), up |-> TargetOrZero(parentLink),
   ord |-> TargetOrZero(orderLink), val |-> TargetOrZero(valueLink)]

\* formatObjectAsLN: "(id: (t: t) (up: up) (ord: ord) (val: val))"
FormatObjectAsLN(obj) == <<obj.id, obj.t, obj.up, obj.ord, obj.val>>

\* links.find((l) => l.source === source && l.target === target)
FindLink(all, source, target) ==
  LET m == SelectSeq(all, LAMBDA l : l.source = source /\ l.target = target)
  IN IF m = <<>> THEN <<>> ELSE <<Head(m)>>

\* getObject(objectId) on the links readAllLinks resolved with: the object,
\* or nothing (null) when no marker link points at objectId.
GetObjectIn(all, objectId) ==
  LET typeLink == FindLink(all, OBJECT_TYPE, objectId)
      parentLink == FindLink(all, OBJECT_PARENT, objectId)
      orderLink == FindLink(all, OBJECT_ORDER, objectId)
      valueLink == FindLink(all, OBJECT_VALUE, objectId)
  IN IF typeLink = <<>> /\ parentLink = <<>> /\ orderLink = <<>>
          /\ valueLink = <<>>
       THEN <<>>
       ELSE <<FormatObject(objectId, typeLink, parentLink, orderLink, valueLink)>>

GetObject(ls, objectId) == GetObjectIn(ReadAllLinks(ls), objectId)

\* req.body of the objects routes: each field a number, or Undefined when
\* the body leaves it out.
ObjectBody(t, up, ord, val) == [t |-> t, up |-> up, ord |-> ord, val |-> val]

ObjectBodies ==
  {ObjectBody(Undefined, Undefined, Undefined, Undefined),
   ObjectBody(0, 0, 0, 0),
   ObjectBody(2, Undefined, Undefined, Undefined),
   ObjectBody(Undefined, 1, Undefined, Undefined),
   ObjectBody(Undefined, Undefined, 2, 1)}

\* const { t = 0, up = 0, ord = 0, val = 0 } = req.body || {}
DefaultZero(v) == IF v = Undefined THEN 0 ELSE v

\* A request of the objects router.
ObjectRequest(op) ==
  [op |-> op, pc |-> "call", id |-> 0, body |-> ObjectBody(0, 0, 0, 0),
   recursive |-> FALSE, direction |-> "none", newOrder |-> Undefined,
   object |-> <<>>, objectId |-> 0, plan |-> <<>>, made |-> <<>>,
   objectIds |-> <<>>, objects |-> <<>>,
   result |-> <<>>, err |-> FALSE, error |-> <<>>]

\* The createLink calls POST /objects makes after the anchor, in order: for
\* each non-zero field its marker link and its value link.
PropertyCalls(marker, v) ==
  IF v # 0 THEN <<<<"marker", marker>>, <<"value", v>>>> ELSE <<>>

CreatePlan(t, up, ord, val) ==
  <<<<"anchor", 0>>>> \o PropertyCalls(OBJECT_TYPE, t)
    \o PropertyCalls(OBJECT_PARENT, up) \o PropertyCalls(OBJECT_ORDER, ord)
    \o PropertyCalls(OBJECT_VALUE, val)

\* The source and target of one createLink call of POST /objects.
PlanSource(step, objectId) ==
  CASE step[1] = "anchor" -> 0
    [] step[1] = "marker" -> step[2]
    [] OTHER -> objectId

PlanTarget(step, objectId) ==
  CASE step[1] = "anchor" -> 0
    [] step[1] = "marker" -> objectId
    [] OTHER -> step[2]

\* -------------------------------------------------------- POST /objects
PostObjectArrive(k, body) ==
  /\ FreeSlot(k)
  /\ nreq' = nreq + 1
  /\ LET t == DefaultZero(body.t)
         up == DefaultZero(body.up)
         ord == DefaultZero(body.ord)
         val == DefaultZero(body.val)
     IN inflight' = [inflight EXCEPT ![k] =
          [ObjectRequest("postObject") EXCEPT
             !.body = ObjectBody(t, up, ord, val),
             !.plan = CreatePlan(t, up, ord, val)]]
  /\ lastResp' = NoResp
  /\ UNCHANGED <<links, nextId, issued, nIssued, ackedDeleted, lastPut>>
  /\ UNCHANGED <<written, created, updated, pure>>

\* The next awaited linkdb.createLink call: the anchor (0, 0), whose id is
\* the object's id, then the marker and value links of the non-zero fields.
PostObjectCall(k) ==
  /\ Waiting(k, "postObject", "call")
  /\ LET r == inflight[k]
         step == Head(r.plan)
         objectId == IF step[1] = "anchor" THEN nextId ELSE r.objectId
         s == PlanSource(step, objectId)
         t == PlanTarget(step, objectId)
     IN /\ links' = StoreCreate(links, nextId, s, t)
        /\ written' = written \cup {<<nextId, s, t>>}
        /\ inflight' = [inflight EXCEPT
                          ![k].objectId = objectId,
                          ![k].made = Append(r.made, nextId),
                          ![k].plan = Tail(r.plan),
                          ![k].pc = IF Tail(r.plan) = <<>> THEN "reply"
                                    ELSE "call"]
  /\ nextId' = nextId + 1
  /\ lastResp' = NoResp
  /\ UNCHANGED <<nreq, issued, nIssued, ackedDeleted, lastPut>>
  /\ UNCHANGED <<created, updated, pure>>

\* const obj = { id: objectId, t, up, ord, val }; 201
PostObjectReply(k) ==
  /\ Waiting(k, "postObject", "reply")
  /\ LET r == inflight[k]
         obj == [id |-> r.objectId, t |-> r.body.t, up |-> r.body.up,
                 ord |-> r.body.ord, val |-> r.body.val]
     IN /\ lastResp' = Resp(201, FormatObjectAsLN(obj), 0, r)
        /\ created' = created \cup {obj}
  /\ inflight' = [inflight EXCEPT ![k] = Idle]
  /\ UNCHANGED <<links, nextId, nreq, issued, nIssued, ackedDeleted, lastPut>>
  /\ UNCHANGED <<written, updated, pure>>

\* ----------------------------------------------------- GET /objects/:id
GetObjectArrive(k, tok) ==
  /\ FreeSlot(k)
  /\ nreq' = nreq + 1
  /\ LET id == ParseInt(tok)
         r == [ObjectRequest("getObject") EXCEPT !.id = id]
     IN IF IsNaN(id)
          THEN /\ lastResp' = Resp(400, <<>>, 0, r)
               /\ UNCHANGED inflight
          ELSE /\ inflight' = [inflight EXCEPT ![k] = r]
               /\ lastResp' = NoResp
  /\ UNCHANGED <<links, nextId, issued, nIssued, ackedDeleted, lastPut>>
  /\ UNCHANGED <<written, created, updated, pure>>

\* await getObject(id), in every handler that starts with it
ObjectLookup(k, op) ==
  /\ Waiting(k, op, "call")
  /\ inflight' = [inflight EXCEPT
                    ![k].object = GetObject(links, inflight[k].id),
                    ![k].pc = "reply"]
  /\ lastResp' = NoResp
  /\ UNCHANGED <<links, nextId, nreq, issued, nIssued, ackedDeleted,
                 lastPut>>
  /\ UNCHANGED <<written, created, updated, pure>>

GetObjectCall(k) == ObjectLookup(k, "getObject")

GetObjectReply(k) ==
  /\ Waiting(k, "getObject", "reply")
  /\ LET r == inflight[k]
     IN lastResp' =
          IF r.object # <<>>
            THEN Resp(200, FormatObjectAsLN(r.object[1]), 0, r)
            ELSE Resp(404, <<>>, 0, r)
  /\ inflight' = [inflight EXCEPT ![k] = Idle]
  /\ UNCHANGED <<links, nextId, nreq, issued, nIssued, ackedDeleted, lastPut>>
  /\ UNCHANGED <<written, created, updated, pure>>

\* --------------------------------------------------------- GET /objects
\* Without query parameters: no type or parent filter, limit 100, offset 0.
ListObjectsArrive(k) ==
  /\ FreeSlot(k)
  /\ nreq' = nreq + 1
  /\ inflight' = [inflight EXCEPT ![k] = ObjectRequest("listObjects")]
  /\ lastResp' = NoResp
  /\ UNCHANGED <<links, nextId, issued, nIssued, ackedDeleted, lastPut>>
  /\ UNCHANGED <<written, created, updated, pure>>

\* objectIds: the targets of the marker links, each once, in the order the
\* Set received them.
RECURSIVE ObjectIds(_, _)
ObjectIds(all, seen) ==
  IF all = <<>> THEN seen
  ELSE IF Head(all).source \in TYPE_MARKERS
          /\ ~\E i \in 1..Len(seen) : seen[i] = Head(all).target
    THEN ObjectIds(Tail(all), Append(seen, Head(all).target))
  ELSE ObjectIds(Tail(all), seen)

\* objects.sort((a, b) => a.ord - b.ord): stable, ascending ord
RECURSIVE SortByOrd(_)
SortByOrd(objs) ==
  IF objs = <<>> THEN <<>>
  ELSE LET i == CHOOSE i \in 1..Len(objs) :
                  /\ \A j \in 1..Len(objs) : objs[i].ord <= objs[j].ord
                  /\ \A j \in 1..(i - 1) : objs[j].ord > objs[i].ord
       IN <<objs[i]>>
            \o SortByOrd(SubSeq(objs, 1, i - 1) \o SubSeq(objs, i + 1, Len(objs)))

\* objects.slice(offset, offset + limit)
Slice(objs, offset, limit) ==
  SubSeq(objs, offset + 1,
         IF offset + limit < Len(objs) THEN offset + limit ELSE Len(objs))

\* paginated: the objects sorted by ord, then sliced with offset 0, limit 100
Paginated(objects) == Slice(SortByOrd(objects), 0, 100)

\* const links = await linkdb.readAllLinks(): the ids of the objects, taken
\* from the store as it is when this call is served.
ListObjectsCall(k) ==
  /\ Waiting(k, "listObjects", "call")
  /\ LET ids == ObjectIds(ReadAllLinks(links), <<>>)
     IN inflight' = [inflight EXCEPT
                       ![k].objectIds = ids,
                       ![k].pc = IF ids = <<>> THEN "reply" ELSE "call2"]
  /\ lastResp' = NoResp
  /\ UNCHANGED <<links, nextId, nreq, issued, nIssued, ackedDeleted,
                 lastPut>>
  /\ UNCHANGED <<written, created, updated, pure>>

\* const obj = await getObject(objId) for the next id of the loop: one more
\* read of the store, as it is when this call is served; an id whose marker
\* links are gone by then is left out.
ListObjectsGet(k) ==
  /\ Waiting(k, "listObjects", "call2")
  /\ LET r == inflight[k]
         obj == GetObject(links, Head(r.objectIds))
     IN inflight' = [inflight EXCEPT
                       ![k].objects = r.objects \o obj,
                       ![k].objectIds = Tail(r.objectIds),
                       ![k].pc = IF Tail(r.objectIds) = <<>> THEN "reply"
                                 ELSE "call2"]
  /\ lastResp' = NoResp
  /\ UNCHANGED <<links, nextId, nreq, issued, nIssued, ackedDeleted,
                 lastPut>>
  /\ UNCHANGED <<written, created, updated, pure>>

ListObjectsReply(k) ==
  /\ Waiting(k, "listObjects", "reply")
  /\ LET r == inflight[k]
         paginated == Paginated(r.objects)
     IN lastResp' =
          Resp(200, [i \in 1..Len(paginated) |-> FormatObjectAsLN(paginated[i])],
               0, r)
  /\ inflight' = [inflight EXCEPT ![k] = Idle]
  /\ UNCHANGED <<links, nextId, nreq, issued, nIssued, ackedDeleted, lastPut>>
  /\ UNCHANGED <<written, created, updated, pure>>

\* ----------------------------------------------------- PUT /objects/:id
PutObjectArrive(k, tok, body) ==
  /\ FreeSlot(k)
  /\ nreq' = nreq + 1
  /\ LET id == ParseInt(tok)
         r == [ObjectRequest("putObject") EXCEPT !.id = id, !.body = body]
     IN IF IsNaN(id)
          THEN /\ lastResp' = Resp(400, <<>>, 0, r)
               /\ UNCHANGED inflight
          ELSE /\ inflight' = [inflight EXCEPT ![k] = r]
               /\ lastResp' = NoResp
  /\ UNCHANGED <<links, nextId, issued, nIssued, ackedDeleted, lastPut>>
  /\ UNCHANGED <<written, created, updated, pure>>

PutObjectCall(k) == ObjectLookup(k, "putObject")

\* v !== undefined ? parseInt(v, 10) : existing
NewOrExisting(v, existing) ==
  IF v # Undefined THEN ParseIntChars(StringOf(v)) ELSE existing

\* updatedObj: the body's fields over the existing object's
UpdatedObj(id, body, existingObj) ==
  [id |-> id, t |-> NewOrExisting(body.t, existingObj.t),
   up |-> NewOrExisting(body.up, existingObj.up),
   ord |-> NewOrExisting(body.ord, existingObj.ord),
   val |-> NewOrExisting(body.val, existingObj.val)]

\* The handler answers with updatedObj; it makes no store call after
\* getObject.
PutObjectReply(k) ==
  /\ Waiting(k, "putObject", "reply")
  /\ LET r == inflight[k]
     IN IF r.object = <<>>
          THEN /\ lastResp' = Resp(404, <<>>, 0, r)
               /\ UNCHANGED updated
          ELSE LET updatedObj == UpdatedObj(r.id, r.body, r.object[1])
               IN /\ lastResp' = Resp(200, FormatObjectAsLN(updatedObj), 0, r)
                  /\ updated' = <<updatedObj>>
  /\ inflight' = [inflight EXCEPT ![k] = Idle]
  /\ UNCHANGED <<links, nextId, nreq, issued, nIssued, ackedDeleted, lastPut>>
  /\ UNCHANGED <<written, created, pure>>

\* --------------------------------------------- POST /objects/:id/reorder
\* req.body: { direction } or { newOrder }
ReorderBodies ==
  {[direction |-> "up", newOrder |-> Undefined],
   [direction |-> "down", newOrder |-> Undefined],
   [direction |-> "none", newOrder |-> 2],
   [direction |-> "none", newOrder |-> Undefined]}

ReorderArrive(k, tok, body) ==
  /\ FreeSlot(k)
  /\ nreq' = nreq + 1
  /\ LET id == ParseInt(tok)
         r == [ObjectRequest("reorder") EXCEPT
                 !.id = id, !.direction = body.direction,
                 !.newOrder = body.newOrder]
     IN IF IsNaN(id)
          THEN /\ lastResp' = Resp(400, <<>>, 0, r)
               /\ UNCHANGED inflight
          ELSE /\ inflight' = [inflight EXCEPT ![k] = r]
               /\ lastResp' = NoResp
  /\ UNCHANGED <<links, nextId, issued, nIssued, ackedDeleted, lastPut>>
  /\ UNCHANGED <<written, created, updated, pure>>

ReorderCall(k) == ObjectLookup(k, "reorder")

\* updatedOrder
UpdatedOrder(ord, direction, newOrder) ==
  IF newOrder # Undefined THEN ParseIntChars(StringOf(newOrder))
  ELSE IF direction = "up" THEN (IF ord - 1 > 0 THEN ord - 1 ELSE 0)
  ELSE IF direction = "down" THEN ord + 1
  ELSE ord

\* The handler answers with { ...obj, ord: updatedOrder }; it makes no store
\* call after getObject.
ReorderReply(k) ==
  /\ Waiting(k, "reorder", "reply")
  /\ LET r == inflight[k]
     IN IF r.object = <<>>
          THEN /\ lastResp' = Resp(404, <<>>, 0, r)
               /\ UNCHANGED updated
          ELSE LET updatedObj ==
                     [r.object[1] EXCEPT
                        !.ord = UpdatedOrder(r.object[1].ord, r.direction,
                                             r.newOrder)]
               IN /\ lastResp' = Resp(200, FormatObjectAsLN(updatedObj), 0, r)
                  /\ updated' = <<updatedObj>>
  /\ inflight' = [inflight EXCEPT ![k] = Idle]
  /\ UNCHANGED <<links, nextId, nreq, issued, nIssued, ackedDeleted, lastPut>>
  /\ UNCHANGED <<written, created, pure>>

\* -------------------------------------------------- DELETE /objects/:id
DeleteObjectArrive(k, tok, recursive) ==
  /\ FreeSlot(k)
  /\ nreq' = nreq + 1
  /\ LET id == ParseInt(tok)
         r == [ObjectRequest("deleteObject") EXCEPT
                 !.id = id, !.recursive = recursive]
     IN IF IsNaN(id)
          THEN /\ lastResp' = Resp(400, <<>>, 0, r)
               /\ UNCHANGED inflight
          ELSE /\ inflight' = [inflight EXCEPT ![k] = r]
               /\ lastResp' = NoResp
  /\ UNCHANGED <<links, nextId, issued, nIssued, ackedDeleted, lastPut>>
  /\ UNCHANGED <<written, created, updated, pure>>

\* await getObject(id): an absent object is answered 404 without a delete
DeleteObjectCall(k) ==
  /\ Waiting(k, "deleteObject", "call")
  /\ LET existingObj == GetObject(links, inflight[k].id)
     IN inflight' = [inflight EXCEPT
                       ![k].object = existingObj,
                       ![k].pc = IF existingObj = <<>> THEN "reply"
                                 ELSE "call2"]
  /\ lastResp' = NoResp
  /\ UNCHANGED <<links, nextId, nreq, issued, nIssued, ackedDeleted,
                 lastPut>>
  /\ UNCHANGED <<written, created, updated, pure>>

\* await linkdb.deleteLink(id): the one link whose id is the object's id
DeleteObjectDelete(k) ==
  /\ Waiting(k, "deleteObject", "call2")
  /\ links' = StoreDelete(links, DeleteTargets(links, inflight[k].id)
                                   \cap DOMAIN links)
  /\ inflight' = [inflight EXCEPT
                    ![k].pc = IF inflight[k].recursive THEN "call3"
                              ELSE "reply"]
  /\ lastResp' = NoResp
  /\ UNCHANGED <<nextId, nreq, issued, nIssued, ackedDeleted, lastPut>>
  /\ UNCHANGED <<written, created, updated, pure>>

\* if (recursive): await linkdb.readAllLinks(), then a loop over the links
\* whose body is empty
DeleteObjectChildren(k) ==
  /\ Waiting(k, "deleteObject", "call3")
  /\ inflight' = [inflight EXCEPT ![k].result = ReadAllLinks(links),
                                  ![k].pc = "reply"]
  /\ lastResp' = NoResp
  /\ UNCHANGED <<links, nextId, nreq, issued, nIssued, ackedDeleted,
                 lastPut>>
  /\ UNCHANGED <<written, created, updated, pure>>

DeleteObjectReply(k) ==
  /\ Waiting(k, "deleteObject", "reply")
  /\ LET r == inflight[k]
     IN IF r.object = <<>>
          THEN /\ lastResp' = Resp(404, <<>>, 0, r)
               /\ UNCHANGED <<ackedDeleted, updated>>
          ELSE /\ lastResp' = Resp(200, <<>>, 0, r)
               /\ ackedDeleted' = ackedDeleted \cup {r.id}
               /\ updated' = IF updated # <<>> /\ updated[1].id = r.id
                               THEN <<>> ELSE updated
  /\ inflight' = [inflight EXCEPT ![k] = Idle]
  /\ UNCHANGED <<links, nextId, nreq, issued, nIssued, lastPut>>
  /\ UNCHANGED <<written, created, pure>>

\* ------------------------------------------ the recursive-links routes
\* req.body?.data of POST /recursive/from-array and /from-object: left out,
\* a string, a nested array of doublets, or an object whose keys "1", "2", ...
\* name doublets.
Data(kind, items) == [kind |-> kind, items |-> items]

RecursiveData ==
  {Data("absent", <<>>), Data("string", <<>>), Data("array", <<>>),
   Data("array", <<<<1, 1>>>>), Data("array", <<<<1, 0>>, <<0, 1>>>>),
   Data("object", <<>>), Data("object", <<<<0, 1>>>>)}

\* The data of the requests served next to others.
ConcurrentData ==
  {Data("absent", <<>>), Data("array", <<<<1, 0>>, <<0, 1>>>>)}

\* A request of the recursive-links router.
RecursiveRequest(op, data) ==
  [op |-> op, pc |-> "call", id |-> 0, data |-> data, made |-> <<>>,
   err |-> FALSE, error |-> <<>>]

\* RecursiveLinks.createFromNestedArray and createFromNestedObject: one link
\* per doublet, created in order, each with the id the store allocates.
RECURSIVE CreateFromNested(_, _, _)
CreateFromNested(ls, nid, items) ==
  IF items = <<>> THEN ls
  ELSE CreateFromNested(StoreCreate(ls, nid, Head(items)[1], Head(items)[2]),
                        nid + 1, Tail(items))

\* The ids of the links created for the doublets.
CreatedIds(nid, items) == [i \in 1..Len(items) |-> nid + i - 1]

\* POST /recursive/from-array (op "fromArray") and /recursive/from-object
\* (op "fromObject"): if (!data || !Array.isArray(data)) 400 for from-array;
\* if (!data || typeof data !== 'object' || Array.isArray(data)) 400 for
\* from-object.  An empty array or object is truthy and goes on.
DataRejected(op, data) ==
  IF op = "fromArray" THEN data.kind # "array" ELSE data.kind # "object"

RecursiveArrive(k, op, data) ==
  /\ FreeSlot(k)
  /\ nreq' = nreq + 1
  /\ LET r == RecursiveRequest(op, data)
     IN IF DataRejected(op, data)
          THEN /\ lastResp' = Resp(400, <<>>, 0, r)
               /\ UNCHANGED inflight
          ELSE /\ inflight' = [inflight EXCEPT ![k] = r]
               /\ lastResp' = NoResp
  /\ UNCHANGED <<links, nextId, issued, nIssued, ackedDeleted, lastPut>>
  /\ UNCHANGED <<written, created, updated, pure>>

\* The awaited call of the handler: the links of the doublets are in the
\* store when it resolves.
RecursiveCall(k, op) ==
  /\ Waiting(k, op, "call")
  /\ LET r == inflight[k]
         ids == CreatedIds(nextId, r.data.items)
     IN /\ links' = CreateFromNested(links, nextId, r.data.items)
        /\ nextId' = nextId + Len(r.data.items)
        /\ written' = written \cup
                        {<<ids[i], r.data.items[i][1], r.data.items[i][2]>> :
                           i \in 1..Len(ids)}
        /\ inflight' = [inflight EXCEPT ![k].made = ids, ![k].pc = "reply"]
  /\ lastResp' = NoResp
  /\ UNCHANGED <<nreq, issued, nIssued, ackedDeleted, lastPut>>
  /\ UNCHANGED <<created, updated, pure>>

\* res.status(201).send(`(created: ${JSON.stringify(ids)})`)
RecursiveReply(k, op) ==
  /\ Waiting(k, op, "reply")
  /\ lastResp' = Resp(201, inflight[k].made, 0, inflight[k])
  /\ inflight' = [inflight EXCEPT ![k] = Idle]
  /\ UNCHANGED <<links, nextId, nreq, issued, nIssued, ackedDeleted, lastPut>>
  /\ UNCHANGED <<written, created, updated, pure>>

\* ------------------------------------------------------ specifications
\* The REST routes of /links and POST /recursive/from-array, which creates
\* links in the same store, requests interleaving at their awaits.
Next ==
  \/ \E k \in Slots, tok \in PathToks : GetLinkArrive(k, tok)
  \/ \E k \in Slots : GetLinkCall(k)
  \/ \E k \in Slots : GetLinkReply(k)
  \/ \E k \in Slots, b \in Bodies : PostLinksArrive(k, b[1], b[2])
  \/ \E k \in Slots : PostLinksCall(k)
  \/ \E k \in Slots : PostLinksReply(k)
  \/ \E k \in Slots, tok \in PathToks, b \in Bodies :
       PutLinkArrive(k, tok, b[1], b[2])
  \/ \E k \in Slots : PutLinkCall(k)
  \/ \E k \in Slots : PutLinkReply(k)
  \/ \E k \in Slots, tok \in PathToks : DeleteLinkArrive(k, tok)
  \/ \E k \in Slots : DeleteLinkCall(k)
  \/ \E k \in Slots : DeleteLinkReply(k)
  \/ \E k \in Slots, data \in ConcurrentData :
       RecursiveArrive(k, "fromArray", data)
  \/ \E k \in Slots : RecursiveCall(k, "fromArray")
  \/ \E k \in Slots : RecursiveReply(k, "fromArray")

Spec == Init /\ [][Next]_vars

\* The two create routes and DELETE, requests interleaving at their awaits.
CreateNext ==
  \/ \E k \in Slots, b \in Bodies : PostLinksArrive(k, b[1], b[2])
  \/ \E k \in Slots : PostLinksCall(k)
  \/ \E k \in Slots : PostLinksReply(k)
  \/ \E k \in Slots, sub \in SubstitutionInputs : IlinksCreateArrive(k, sub)
  \/ \E k \in Slots : IlinksCreateCall(k)
  \/ \E k \in Slots : IlinksCreateRead(k)
  \/ \E k \in Slots : IlinksCreateReply(k)
  \/ \E k \in Slots, tok \in PathToks : DeleteLinkArrive(k, tok)
  \/ \E k \in Slots : DeleteLinkCall(k)
  \/ \E k \in Slots : DeleteLinkReply(k)

CreateSpec == Init /\ [][CreateNext]_vars

\* The read routes over every store the write routes build, one request at
\* a time (no mutation while a query is served).
QueryNext ==
  \/ \E b \in Bodies : PostLinksArrive(1, b[1], b[2])
  \/ PostLinksCall(1)
  \/ PostLinksReply(1)
  \/ \E tok \in PathToks, b \in Bodies : PutLinkArrive(1, tok, b[1], b[2])
  \/ PutLinkCall(1)
  \/ PutLinkReply(1)
  \/ \E tok \in PathToks : DeleteLinkArrive(1, tok)
  \/ DeleteLinkCall(1)
  \/ DeleteLinkReply(1)
  \/ GetLinksArrive(1)
  \/ GetLinksCall(1)
  \/ GetLinksReply(1)
  \/ \E r \in RestrictionInputs : IlinksCountArrive(1, r)
  \/ IlinksCountCall(1)
  \/ IlinksCountReply(1)
  \/ \E r \in RestrictionInputs : IlinksEachArrive(1, r)
  \/ IlinksEachCall(1)
  \/ IlinksEachReply(1)

QuerySpec == Init /\ [][QueryNext]_vars

\* The /links routes, one request at a time, over a store whose calls may
\* reject.
OutageNext ==
  \/ \E tok \in PathToks : GetLinkArrive(1, tok)
  \/ GetLinkCall(1)
  \/ GetLinkReply(1)
  \/ GetLinksArrive(1)
  \/ GetLinksCall(1)
  \/ GetLinksReply(1)
  \/ \E b \in Bodies : PostLinksArrive(1, b[1], b[2])
  \/ PostLinksCall(1)
  \/ PostLinksReply(1)
  \/ \E tok \in PathToks, b \in Bodies : PutLinkArrive(1, tok, b[1], b[2])
  \/ PutLinkCall(1)
  \/ PutLinkReply(1)
  \/ \E tok \in PathToks : DeleteLinkArrive(1, tok)
  \/ DeleteLinkCall(1)
  \/ DeleteLinkReply(1)
  \/ \E msg \in StoreFailures : StoreCallFails(1, msg)
  \/ CatchReply(1)

OutageSpec == Init /\ [][OutageNext]_vars

\* exportLinks, detectFormat and importLinks applied in turn to every list,
\* format and options object.
CodecNext ==
  \/ ExportLinksCall
  \/ DetectFormatCall
  \/ ImportLinksCall
  \/ ImportFromJSONCall

CodecSpec == CodecInit /\ [][CodecNext]_vars

\* The server's start-up under every .lenv file and environment.
ConfigNext == LoadConfig

ConfigSpec == ConfigInit /\ [][ConfigNext]_vars

\* parseFilterValue, applyFilter and filterLinks applied to every filter
\* value, tested value, link list and filters object.
FilterNext ==
  \/ ParseFilterValueCall
  \/ ApplyFilterCall
  \/ FilterLinksCall
  \/ RangeFilterCall

FilterSpec == FilterInit /\ [][FilterNext]_vars

\* The objects routes, requests interleaving at their awaits.
ObjectsNext ==
  \/ \E k \in Slots, body \in ObjectBodies : PostObjectArrive(k, body)
  \/ \E k \in Slots : PostObjectCall(k)
  \/ \E k \in Slots : PostObjectReply(k)
  \/ \E k \in Slots, tok \in PathToks : GetObjectArrive(k, tok)
  \/ \E k \in Slots : GetObjectCall(k)
  \/ \E k \in Slots : GetObjectReply(k)
  \/ \E k \in Slots : ListObjectsArrive(k)
  \/ \E k \in Slots : ListObjectsCall(k)
  \/ \E k \in Slots : ListObjectsGet(k)
  \/ \E k \in Slots : ListObjectsReply(k)
  \/ \E k \in Slots, tok \in PathToks, body \in ObjectBodies :
       PutObjectArrive(k, tok, body)
  \/ \E k \in Slots : PutObjectCall(k)
  \/ \E k \in Slots : PutObjectReply(k)
  \/ \E k \in Slots, tok \in PathToks, body \in ReorderBodies :
       ReorderArrive(k, tok, body)
  \/ \E k \in Slots : ReorderCall(k)
  \/ \E k \in Slots : ReorderReply(k)
  \/ \E k \in Slots, tok \in PathToks, recursive \in BOOLEAN :
       DeleteObjectArrive(k, tok, recursive)
  \/ \E k \in Slots : DeleteObjectCall(k)
  \/ \E k \in Slots : DeleteObjectDelete(k)
  \/ \E k \in Slots : DeleteObjectChildren(k)
  \/ \E k \in Slots : DeleteObjectReply(k)

ObjectsSpec == Init /\ [][ObjectsNext]_vars

\* Path ids as they arrive on the wire: a decimal integer, letters, and
\* digits followed by a letter.
WireIds == {"1", "x", "1x"}

\* The source and target of a body: integers, a missing field (""), letters,
\* digits followed by a letter.
WireBodies ==
  {<<"1", "1">>, <<"", "1">>, <<"1", "">>, <<"x", "1">>, <<"1", "1x">>}

\* The restriction and substitution of an /ilinks/update or /ilinks/delete
\* body.
WireRestrictions ==
  {[kind |-> "absent", items |-> <<>>], [kind |-> "null", items |-> <<>>],
   [kind |-> "string", items |-> <<>>], [kind |-> "array", items |-> <<1>>],
   [kind |-> "array", items |-> <<0, 1>>]}

WireSubstitutions ==
  {[kind |-> "absent", items |-> <<>>], [kind |-> "array", items |-> <<1>>],
   [kind |-> "array", items |-> <<1, 0>>]}

\* Every route that validates its input, one request at a time.
ValidationNext ==
  \/ \E tok \in WireIds : GetLinkArrive(1, tok)
  \/ GetLinkCall(1)
  \/ GetLinkReply(1)
  \/ \E b \in WireBodies : PostLinksArrive(1, b[1], b[2])
  \/ PostLinksCall(1)
  \/ PostLinksReply(1)
  \/ \E tok \in WireIds, b \in WireBodies : PutLinkArrive(1, tok, b[1], b[2])
  \/ PutLinkCall(1)
  \/ PutLinkReply(1)
  \/ \E tok \in WireIds : DeleteLinkArrive(1, tok)
  \/ DeleteLinkCall(1)
  \/ DeleteLinkReply(1)
  \/ \E r \in WireRestrictions, s \in WireSubstitutions :
       IlinksUpdateArrive(1, r, s)
  \/ IlinksUpdateCall(1)
  \/ IlinksUpdateRead(1)
  \/ IlinksUpdateReply(1)
  \/ \E r \in WireRestrictions : IlinksDeleteArrive(1, r)
  \/ IlinksDeleteCall(1)
  \/ IlinksDeleteReply(1)
  \/ \E body \in ObjectBodies : PostObjectArrive(1, body)
  \/ PostObjectCall(1)
  \/ PostObjectReply(1)
  \/ \E tok \in WireIds : GetObjectArrive(1, tok)
  \/ GetObjectCall(1)
  \/ GetObjectReply(1)
  \/ \E tok \in WireIds, body \in ObjectBodies : PutObjectArrive(1, tok, body)
  \/ PutObjectCall(1)
  \/ PutObjectReply(1)
  \/ \E tok \in WireIds, recursive \in BOOLEAN :
       DeleteObjectArrive(1, tok, recursive)
  \/ DeleteObjectCall(1)
  \/ DeleteObjectDelete(1)
  \/ DeleteObjectChildren(1)
  \/ DeleteObjectReply(1)
  \/ \E data \in RecursiveData : RecursiveArrive(1, "fromArray", data)
  \/ RecursiveCall(1, "fromArray")
  \/ RecursiveReply(1, "fromArray")
  \/ \E data \in RecursiveData : RecursiveArrive(1, "fromObject", data)
  \/ RecursiveCall(1, "fromObject")
  \/ RecursiveReply(1, "fromObject")

ValidationSpec == Init /\ [][ValidationNext]_vars

\* The bodies of the concurrent /ilinks requests.
ConcurrentSubstitutions ==
  {[kind |-> "array", items |-> <<1, 0>>],
   [kind |-> "array", items |-> <<0, 1, 1>>]}

ConcurrentRestrictions == {[kind |-> "array", items |-> <<1>>]}

\* POST /ilinks/create and /ilinks/update next to PUT and DELETE /links/1,
\* requests interleaving at their awaits.
IlinksNext ==
  \/ \E k \in Slots, s \in ConcurrentSubstitutions : IlinksCreateArrive(k, s)
  \/ \E k \in Slots : IlinksCreateCall(k)
  \/ \E k \in Slots : IlinksCreateRead(k)
  \/ \E k \in Slots : IlinksCreateReply(k)
  \/ \E k \in Slots, r \in ConcurrentRestrictions,
        s \in ConcurrentSubstitutions : IlinksUpdateArrive(k, r, s)
  \/ \E k \in Slots : IlinksUpdateCall(k)
  \/ \E k \in Slots : IlinksUpdateRead(k)
  \/ \E k \in Slots : IlinksUpdateReply(k)
  \/ \E k \in Slots : PutLinkArrive(k, "1", "1", "1")
  \/ \E k \in Slots : PutLinkCall(k)
  \/ \E k \in Slots : PutLinkReply(k)
  \/ \E k \in Slots : DeleteLinkArrive(k, "1")
  \/ \E k \in Slots : DeleteLinkCall(k)
  \/ \E k \in Slots : DeleteLinkReply(k)

IlinksSpec == Init /\ [][IlinksNext]_vars

\* GET and POST /links, POST /ilinks/update and PUT /objects/:id over a store
\* whose calls may reject with any value, one request at a time.
RejectNext ==
  \/ GetLinksArrive(1)
  \/ GetLinksCall(1)
  \/ GetLinksReply(1)
  \/ \E b \in WireBodies : PostLinksArrive(1, b[1], b[2])
  \/ PostLinksCall(1)
  \/ PostLinksReply(1)
  \/ \E r \in WireRestrictions, s \in WireSubstitutions :
       IlinksUpdateArrive(1, r, s)
  \/ IlinksUpdateCall(1)
  \/ IlinksUpdateRead(1)
  \/ IlinksUpdateReply(1)
  \/ \E tok \in WireIds, body \in ObjectBodies : PutObjectArrive(1, tok, body)
  \/ PutObjectCall(1)
  \/ PutObjectReply(1)
  \/ \E e \in ThrownValues : StoreCallFails(1, e)
  \/ CatchReply(1)

RejectSpec == Init /\ [][RejectNext]_vars

\* POST /objects, GET /objects/:id and DELETE /objects/:id over a store
\* whose calls may reject with any value.
ObjectsOutageNext ==
  \/ \E body \in ObjectBodies : PostObjectArrive(1, body)
  \/ PostObjectCall(1)
  \/ PostObjectReply(1)
  \/ \E tok \in PathToks : GetObjectArrive(1, tok)
  \/ GetObjectCall(1)
  \/ GetObjectReply(1)
  \/ \E tok \in PathToks, recursive \in BOOLEAN :
       DeleteObjectArrive(1, tok, recursive)
  \/ DeleteObjectCall(1)
  \/ DeleteObjectDelete(1)
  \/ DeleteObjectChildren(1)
  \/ DeleteObjectReply(1)
  \/ \E e \in ThrownValues : StoreCallFails(1, e)
  \/ CatchReply(1)

ObjectsOutageSpec == Init /\ [][ObjectsOutageNext]_vars

\* =============================================================== claims
IsCreate(op) == op \in {"postLinks", "ilinksCreate"}

\* C1: under every interleaving of concurrent POST /links and
\* POST /ilinks/create requests, the ids the 201 responses carry are pairwise
\* distinct: as many different ids were answered as creates were answered.
C1_CreatedIdsDistinct == Cardinality(issued) = nIssued

\* Two creates were in flight together (the one answered now arrived before
\* any create had been answered) and both have been answered.
C1_Witness ==
  /\ lastResp.req.op = "ilinksCreate"
  /\ lastResp.status = 201
  /\ lastResp.req.floor = 0
  /\ nIssued = 2

\* C2: a create answers an id strictly greater than every id a create had
\* answered before this request arrived, whether or not those links were
\* updated or deleted since.
C2_IdsIncrease ==
  (IsCreate(lastResp.req.op) /\ lastResp.status = 201)
    => lastResp.body[1][1] > lastResp.req.floor

\* A create answered after the link with the greatest earlier id was deleted.
C2_Witness ==
  /\ lastResp.req.op = "postLinks"
  /\ lastResp.status = 201
  /\ lastResp.req.floor >= 1
  /\ lastResp.req.floor \notin DOMAIN links

\* C3: once DELETE /links/:id has answered '(deleted: ok)', every GET
\* /links/:id arriving later answers 404.
C3_DeletedStaysGone ==
  (lastResp.req.op = "getLink" /\ lastResp.req.acked) => lastResp.status = 404

\* C4: PUT /links/:id on an existing id answers 200 with (id: s t) for the
\* id of the path, and a GET /links/:id that arrives after that answer and
\* is served before any other write of the id answers 200 with (id: s t).
C4_UpdateThenRead ==
  /\ (lastResp.req.op = "putLink" /\ lastResp.req.found)
       => /\ lastResp.status = 200
          /\ lastResp.body =
               <<<<lastResp.req.id, lastResp.req.source, lastResp.req.target>>>>
  /\ (lastResp.req.op = "getLink" /\ lastResp.req.expect # <<>>)
       => /\ lastResp.status = 200
          /\ lastResp.body =
               <<<<lastResp.req.id, lastResp.req.expect[1],
                   lastResp.req.expect[2]>>>>

\* A GET answered right after an acknowledged PUT that changed the link.
C4_Witness ==
  /\ lastResp.req.op = "getLink"
  /\ lastResp.req.expect = <<0, 1>>
  /\ lastResp.status = 200

\* C5: PUT /links/:id on an id that is not in the store answers NotFound
\* (404).
C5_UpdateAbsentNotFound ==
  (lastResp.req.op = "putLink" /\ lastResp.req.err) => lastResp.status = 404

\* C6: DELETE /links/:id on an id that is not in the store answers NotFound
\* (404), not the deletion acknowledgment.
C6_DeleteAbsentNotFound ==
  (/\ lastResp.req.op = "deleteLink"
   /\ ~IsNaN(lastResp.req.id)
   /\ ~lastResp.req.found)
    => lastResp.status = 404

\* C7: the store call of DELETE /links/:id removes no other link and changes
\* no other link's source or target, links that point at the deleted id
\* included.
C7_DeleteDoesNotCascade ==
  [][\A k \in Slots :
       DeleteLinkCall(k) =>
         \A j \in DOMAIN links \ {inflight[k].id} :
           j \in DOMAIN links' /\ links'[j] = links[j]]_vars

\* A link was deleted and a link whose source or target is its id remains.
C7_Witness ==
  \E k \in Slots :
    /\ Waiting(k, "deleteLink", "reply")
    /\ inflight[k].found
    /\ \E j \in DOMAIN links :
         links[j].source = inflight[k].id \/ links[j].target = inflight[k].id

\* C8: with no mutation in between, for every restriction POST /ilinks/count
\* answers the number of links POST /ilinks/each answers.
C8_CountEqualsEach ==
  /\ \A r \in RestrictionInputs :
       Count(links, RestrictionOrNull(r))
         = Len(FormatLinksAsLN(Each(links, RestrictionOrNull(r))))
  /\ lastResp.req.op = "ilinksCount"
       => lastResp.n = Len(FormatLinksAsLN(Each(links, lastResp.req.restriction)))
  /\ lastResp.req.op = "ilinksEach"
       => Len(lastResp.body) = Count(links, lastResp.req.restriction)

\* A count answered for a restriction that selects some links and not all.
C8_Witness ==
  /\ lastResp.req.op = "ilinksCount"
  /\ lastResp.n = 1
  /\ Cardinality(DOMAIN links) = 2

\* C9: each selects exactly the links equal to the restriction in every slot
\* that holds a LinkId, zero included.
SlotEquals(v, x) == v = x

MatchesExactly(link, r) ==
  LET it == r.items
  IN IF r.kind = "null" \/ Len(it) = 0 THEN TRUE
     ELSE IF Len(it) = 1 THEN SlotEquals(it[1], link.id)
     ELSE IF Len(it) = 2
       THEN SlotEquals(it[1], link.source) /\ SlotEquals(it[2], link.target)
     ELSE /\ SlotEquals(it[1], link.id)
          /\ SlotEquals(it[2], link.source)
          /\ SlotEquals(it[3], link.target)

C9_ConcreteSlotsMatchExactly ==
  \A r \in RestrictionInputs :
    Each(links, RestrictionOrNull(r))
      = SelectSeq(ReadAllLinks(links),
                  LAMBDA l : MatchesExactly(l, RestrictionOrNull(r)))

\* C10: POST /ilinks/create with a substitution that is missing, not an
\* array or shorter than 2 answers 400 and creates nothing; otherwise it
\* creates exactly one link, whose source and target are the first two
\* elements.
C10_CreateNeedsPair ==
  lastResp.req.op = "ilinksCreate" =>
    LET sub == lastResp.req.substitution
        made == lastResp.req.made
    IN IF sub.kind # "array" \/ Len(sub.items) < 2
         THEN lastResp.status = 400 /\ made = <<>>
         ELSE /\ lastResp.status \in {201, 500}
              /\ Len(made) = 1
              /\ made[1].source = sub.items[1]
              /\ made[1].target = sub.items[2]

\* A three-element substitution was accepted and its link answered.
C10_Witness ==
  /\ lastResp.req.op = "ilinksCreate"
  /\ lastResp.status = 201
  /\ Len(lastResp.req.substitution.items) = 3
  /\ lastResp.body = <<<<1, 1, 0>>>>

\* C12: under every interleaving of concurrent PUT, DELETE and GET requests
\* on one id, a GET /links/:id answers 404, or 200 with the (source, target)
\* pair that one create or one update of that id wrote: never the source of
\* one write with the target of another.
C12_NoTornRead ==
  (lastResp.req.op = "getLink" /\ ~IsNaN(lastResp.req.id)) =>
    \/ lastResp.status = 404 /\ lastResp.body = <<>>
    \/ /\ lastResp.status = 200
       /\ Len(lastResp.body) = 1
       /\ lastResp.body[1][1] = lastResp.req.id
       /\ lastResp.body[1] \in written

\* A GET answered 200 while a PUT of the same id is still in flight, the id
\* having been written as (0, 1) and as (1, 0): the torn pairs (0, 0) and
\* (1, 1) were never written.
C12_Witness ==
  /\ lastResp.req.op = "getLink"
  /\ lastResp.status = 200
  /\ \E k \in Slots : Waiting(k, "putLink", "reply") /\ inflight[k].id = lastResp.req.id
  /\ {w \in written : w[1] = lastResp.req.id}
       = {<<lastResp.req.id, 0, 1>>, <<lastResp.req.id, 1, 0>>}

\* C14: a request whose store call was rejected because the store is
\* unavailable is answered 503 (never 404, never a success), with the error
\* in the response, and leaves no second store call behind.
C14_UnavailableIs503 ==
  lastResp.req.error # <<>> =>
    /\ lastResp.status = 503
    /\ lastResp.body # <<>>
    /\ lastResp.req.result = <<>>

\* C15: for every non-empty list L of links and every format of ln, json and
\* csv, importLinks(exportLinks(L, fmt), fmt) has the length of L and its
\* i-th element has the source and target of L[i], and originalId equal to
\* its id.
C15_ExportImportRoundTrip ==
  (/\ pure.fn = "codec"
   /\ pure.phase = "imported"
   /\ pure.options = DefaultOptions
   /\ Len(pure.links) >= 1)
    => /\ Len(pure.imported) = Len(pure.links)
       /\ \A i \in 1..Len(pure.links) :
            /\ pure.imported[i].source = pure.links[i].source
            /\ pure.imported[i].target = pure.links[i].target
            /\ pure.imported[i].originalId = pure.links[i].id

\* Two links with ids 12 and 0 went through the csv text and came back.
C15_Witness ==
  /\ pure.fn = "codec"
  /\ pure.phase = "imported"
  /\ pure.options = DefaultOptions
  /\ pure.format = "csv"
  /\ pure.links = <<Link(12, 0, 12), Link(0, 12, 0)>>
  /\ pure.imported =
       <<[source |-> 0, target |-> 12, originalId |-> 12],
         [source |-> 12, target |-> 0, originalId |-> 0]>>

\* C16: detectFormat(exportLinks(L, fmt, options)) = fmt for every link list,
\* every format and every delimiter and option of the export.
C16_DetectsExportedFormat ==
  (pure.fn = "codec" /\ pure.phase \in {"detected", "imported"})
    => pure.detected = pure.format

\* C18: each of PORT, HOST and DB_PATH takes the environment variable's value
\* when the variable is set, else the .lenv value when the file has one, else
\* the built-in default.
Preferred(fromEnv, fromLenv, default) ==
  IF fromEnv.defined THEN fromEnv.text
  ELSE IF fromLenv.defined THEN fromLenv.text
  ELSE default

C18_EnvironmentOverridesLenv ==
  (pure.fn = "config" /\ pure.phase = "loaded") =>
    /\ Digits(pure.PORT)
         = Preferred(pure.environ.PORT, pure.lenv.port, Digits(DefaultPort))
    /\ pure.HOST = Preferred(pure.environ.HOST, pure.lenv.host, DefaultHost)
    /\ pure.DB_PATH
         = Preferred(pure.environ.DB_PATH, pure.lenv.db, DefaultDbPath)

\* C19: filterLinks(links, filters) is the links that satisfy the filter of
\* every field named in filters, unchanged and in their input order; with an
\* empty or missing filters object it is all the links.
C19_FilterLinksConjunction ==
  (pure.fn = "filterLinks" /\ pure.phase = "filtered") =>
    IF pure.filters = MissingFilters \/ DOMAIN pure.filters = {}
      THEN pure.result = pure.links
      ELSE pure.result =
             SelectSeq(pure.links,
                       LAMBDA l : \A f \in DOMAIN pure.filters :
                         ApplyFilter(GetField(l, f),
                                     ParseFilterValue(pure.filters[f])))

\* Of two links with source 100 the filters {source: '100', target: '100,200'}
\* keep the one whose target is 200.
C19_Witness ==
  /\ pure.fn = "filterLinks"
  /\ pure.phase = "filtered"
  /\ pure.links = <<Link(2, 100, 300), Link(1, 100, 200)>>
  /\ DOMAIN pure.filters = {"source", "target"}
  /\ pure.filters["source"] = <<"1", "0", "0">>
  /\ pure.filters["target"] = <<"1", "0", "0", ",", "2", "0", "0">>
  /\ pure.result = <<Link(1, 100, 200)>>

\* C20: for every filter value string v, one beginning with '!' included,
\* and every tested value x, the filter parsed from '!' followed by v accepts
\* x exactly when the filter parsed from v rejects x.
C20_NegationIsComplement ==
  (pure.fn = "negation" /\ pure.phase = "applied") =>
    (pure.acceptsNegation <=> ~pure.accepts)

\* C21: the filter parsed from 'a..b' is a between filter whose bounds are a
\* and b, null for an omitted one, and it accepts a number x exactly when
\* a <= x <= b, an omitted bound placing no constraint on its side.
C21_RangeIsInclusive ==
  (pure.fn = "range" /\ pure.phase = "applied") =>
    /\ pure.filter.operator = "between"
    /\ pure.filter.from = pure.from
    /\ pure.filter.to = pure.to
    /\ pure.accepts <=>
         /\ pure.from = Null \/ pure.from <= pure.x
         /\ pure.to = Null \/ pure.x <= pure.to

\* '1..2' accepts 2, its upper bound.
C21_Witness ==
  /\ pure.fn = "range"
  /\ pure.phase = "applied"
  /\ pure.from = 1
  /\ pure.to = 2
  /\ pure.x = 2
  /\ pure.accepts

\* C22: GET /objects/:id for an object that POST /objects reported created,
\* and that was neither deleted nor updated since, answers 200 with the t,
\* up, ord and val of the creation response.
C22_CreatedObjectIsReturned ==
  \A o \in created :
    ( /\ lastResp.req.op = "getObject"
      /\ lastResp.req.id = o.id
      /\ o.id \notin ackedDeleted
      /\ updated = <<>> ) =>
      /\ lastResp.status = 200
      /\ lastResp.body = FormatObjectAsLN(o)

\* C23: once DELETE /objects/:id has answered '(deleted: ok)' for an id,
\* GET /objects/:id answers 404 for it and GET /objects does not list it
\* (the store never gives the id to a new object).
C23_DeletedObjectIsGone ==
  /\ (lastResp.req.op = "getObject" /\ lastResp.req.id \in ackedDeleted) =>
       lastResp.status = 404
  /\ lastResp.req.op = "listObjects" =>
       \A i \in 1..Len(lastResp.body) : lastResp.body[i][1] \notin ackedDeleted

\* C24: GET /objects/:id for the object the last PUT /objects/:id or POST
\* /objects/:id/reorder answered 200 for answers 200 with the t, up, ord and
\* val of that response.
C24_UpdateIsStored ==
  ( /\ lastResp.req.op = "getObject"
    /\ updated # <<>>
    /\ updated[1].id = lastResp.req.id ) =>
    /\ lastResp.status = 200
    /\ lastResp.body = FormatObjectAsLN(updated[1])

\* The ids reachable from ids by going from a parent to the objects created
\* with it as their up.
RECURSIVE Below(_, _)
Below(objs, ids) ==
  LET next == ids \cup {o.id : o \in {x \in objs : x.up \in ids}}
  IN IF next = ids THEN ids ELSE Below(objs, next)

\* The children of id, transitively.
Descendants(objs, id) ==
  {o.id : o \in {x \in objs : x.up \in Below(objs, {id})}} \ {id}

\* C25: when DELETE /objects/:id answers '(deleted: ok)', with
\* recursive=true no child of the object, transitively, is an object of the
\* store any more; without it every child that was not deleted itself still
\* is one.
C25_RecursiveDeleteRemovesChildren ==
  (lastResp.req.op = "deleteObject" /\ lastResp.status = 200) =>
    IF lastResp.req.recursive
      THEN \A c \in Descendants(created, lastResp.req.id) :
             GetObject(links, c) = <<>>
      ELSE \A c \in Descendants(created, lastResp.req.id) \ ackedDeleted :
             GetObject(links, c) # <<>>

\* The links of the property calls of POST /objects for one field.
PropertyLinksExist(ls, objectId, marker, v) ==
  v # 0 =>
    /\ \E j \in DOMAIN ls : ls[j] = [source |-> marker, target |-> objectId]
    /\ \E j \in DOMAIN ls : ls[j] = [source |-> objectId, target |-> v]

\* C27: a POST /objects answered 500 or 503 leaves none of the links it
\* created in the store; one answered 201 leaves the marker and value links
\* of every non-zero field.
C27_PostObjectAllOrNothing ==
  lastResp.req.op = "postObject" =>
    /\ lastResp.status \in {500, 503} =>
         \A i \in 1..Len(lastResp.req.made) :
           lastResp.req.made[i] \notin DOMAIN links
    /\ lastResp.status = 201 =>
         LET r == lastResp.req
         IN /\ PropertyLinksExist(links, r.objectId, OBJECT_TYPE, r.body.t)
            /\ PropertyLinksExist(links, r.objectId, OBJECT_PARENT, r.body.up)
            /\ PropertyLinksExist(links, r.objectId, OBJECT_ORDER, r.body.ord)
            /\ PropertyLinksExist(links, r.objectId, OBJECT_VALUE, r.body.val)

\* A path id that is a decimal integer; a body number that is an integer.
IsDecimalInteger(tok) == tok \in {"0", "1", "2"}

\* A request the claim calls invalid arrives at slot 1.
InvalidRequestArrives ==
  \/ \E tok \in {t \in WireIds : ~IsDecimalInteger(t)} :
       \/ GetLinkArrive(1, tok)
       \/ DeleteLinkArrive(1, tok)
       \/ \E b \in WireBodies : PutLinkArrive(1, tok, b[1], b[2])
       \/ GetObjectArrive(1, tok)
       \/ \E body \in ObjectBodies : PutObjectArrive(1, tok, body)
       \/ \E recursive \in BOOLEAN : DeleteObjectArrive(1, tok, recursive)
  \/ \E b \in {x \in WireBodies :
                 ~IsDecimalInteger(x[1]) \/ ~IsDecimalInteger(x[2])} :
       \/ PostLinksArrive(1, b[1], b[2])
       \/ \E tok \in WireIds : PutLinkArrive(1, tok, b[1], b[2])
  \/ \E r \in {x \in WireRestrictions : x.kind # "array"} :
       \/ \E s \in WireSubstitutions : IlinksUpdateArrive(1, r, s)
       \/ IlinksDeleteArrive(1, r)

\* C26: a request with a path id that is not a decimal integer, a source or
\* target that is missing or not an integer, or a restriction that is not an
\* array is answered 400 on arrival; it leaves the links as they were and no
\* store call behind.
C26_InvalidRequestIs400 ==
  [][InvalidRequestArrives =>
       /\ lastResp'.status = 400
       /\ links' = links
       /\ inflight' = inflight]_vars

\* C28: a 201 of POST /ilinks/create and a 200 of POST /ilinks/update carry
\* one link whose source and target are the first two elements of the
\* request's substitution, whatever PUT, DELETE and /ilinks requests are
\* served in between; and a POST /ilinks/create whose link was created is
\* answered 201.
C28_ReportsSubstitution ==
  LET r == lastResp.req
  IN /\ (r.op \in {"ilinksCreate", "ilinksUpdate"}
           /\ lastResp.status \in {200, 201}) =>
          /\ Len(lastResp.body) = 1
          /\ lastResp.body[1][2] = r.substitution.items[1]
          /\ lastResp.body[1][3] = r.substitution.items[2]
     /\ (r.op = "ilinksCreate" /\ r.made # <<>>) => lastResp.status = 201

\* The statuses of the responses.
ResponseStatuses == {200, 201, 400, 404, 500, 503}

\* C29: a handler ends only by sending a response, a store call that rejected
\* (with whatever value) included; every response has one of the six
\* statuses, and the handler that sent it takes no further step, so none
\* sends a second one.
C29_ExactlyOneResponse ==
  [][/\ (inflight[1] # Idle /\ inflight'[1] = Idle) =>
          lastResp'.status \in ResponseStatuses
     /\ lastResp'.status # 0 =>
          /\ lastResp'.status \in ResponseStatuses
          /\ inflight'[1] = Idle]_vars

\* A number importFromJSON gives a link for a field of the text: the field's
\* value, 0 when the text leaves the field out.
ValueOrZero(v) == IF v = Undefined THEN 0 ELSE v

\* C30: every record importFromJSON returns, for an array of objects and for
\* a single object alike, has a source and a target that are the integers of
\* the text (0 for a field the text leaves out) and an originalId field.
C30_ImportedJsonShape ==
  (pure.fn = "importFromJSON" /\ pure.phase = "imported") =>
    /\ Len(pure.members) = 1
    /\ \A i \in 1..Len(pure.members) :
         /\ <<JsonKeys[2], ValueOrZero(pure.item[2])>> \in pure.members[i]
         /\ <<JsonKeys[3], ValueOrZero(pure.item[3])>> \in pure.members[i]
         /\ \E p \in pure.members[i] :
              p[1] = <<"o", "r", "i", "g", "i", "n", "a", "l", "I", "d">>

====
